---- MODULE Spec2Model ----
(***************************************************************************)
(* Paynexus MCP: the dual-mode HTTP gateway (sandbox simulator and         *)
(* production proxy with legacy fallback) and the webhook signature        *)
(* verifier.                                                               *)
(*                                                                         *)
(* JavaScript strings are sequences of one-character strings, so that      *)
(* startsWith, slice, replace, toLowerCase and hex coding are computed and *)
(* not assumed.  null/undefined is the value Null, which is no string.     *)
(***************************************************************************)
EXTENDS Integers, Sequences, FiniteSets, TLC

VARIABLES
    env,           \* process.env: [PAYNEXUS_ENV, MCP_ENV], read once at startup
    demoSessions,  \* Map<string, DemoSession>: token -> session
    prodState,     \* { jwt, apiKey }: the production credential slot
    uuidCount,     \* number of randomUUID() values drawn so far
    reqCount,      \* number of requests received so far (also the clock)
    inflight,      \* production requests awaiting a backend answer: id -> record
    last,          \* the exchange the latest step completed: request, response,
                   \* backend calls (NoExchange when that step completed none)
    issuedTokens,  \* history: the tokens login responses have returned, in order
    sig,           \* the webhook verifier's current call and its result
    client,        \* the PaynexusClient: its config { apiKey, baseUrl, env }
    logLevel,      \* the level the StructuredLogger was constructed with
    pending,       \* calls of the client library awaiting fetch: id -> record
    callCount,     \* number of library calls started so far
    bytesCount,    \* number of randomBytes(32) values drawn so far
    settled,       \* the library call the latest step settled (NoCall if none)
    console        \* the log entries the latest step emitted, in order

vars == <<env, demoSessions, prodState, uuidCount, reqCount, inflight, last,
          issuedTokens, sig, client, logLevel, pending, callCount, bytesCount,
          settled, console>>

libraryVars == <<client, logLevel, pending, callCount, bytesCount, settled,
                 console>>

gatewayVars == <<env, demoSessions, prodState, uuidCount, reqCount, inflight,
                 last, issuedTokens>>

-----------------------------------------------------------------------------
(* Bounds of the model *)

\* requests the gateway receives in one run
MaxRequests == 4
\* requests the gateway receives in one run in production mode
MaxProdRequests == 2
\* production requests that may await the backend at the same time
MaxInflight == 2
\* longest payload and secret handed to the signature verifier
MaxLen == 2
\* requests the gateway receives in one run of ModeSpec
MaxModeRequests == 2
\* library calls started in a run, and library calls awaiting fetch at once
MaxCalls == 2
MaxPending == 2
\* nesting depth of the data the logger is called with
MaxDepth == 2
\* webhook registrations in one run of WebhookSpec, by either way
MaxHooks == 2

-----------------------------------------------------------------------------
(* Strings *)

Null == << "<null>" >>

\* JavaScript truthiness of a string-or-null value
Truthy(s) == s # Null /\ s # <<>>

\* a ?? b
Coalesce(a, b) == IF a = Null THEN b ELSE a

\* s.startsWith(p)
StartsWith(s, p) == Len(s) >= Len(p) /\ SubSeq(s, 1, Len(p)) = p

\* s.slice(from) with a 0-based start
SliceFrom(s, from) == SubSeq(s, from + 1, Len(s))

\* s.slice(0, n)
SliceTo(s, n) == SubSeq(s, 1, IF Len(s) < n THEN Len(s) ELSE n)

Ellipsis == <<".", ".", ".">>

HexDigits == <<"0","1","2","3","4","5","6","7","8","9","a","b","c","d","e","f">>

UpperLetters == <<"A","B","C","D","E","F","G","H","I","J","K","L","M",
                  "N","O","P","Q","R","S","T","U","V","W","X","Y","Z">>

LowerLetters == <<"a","b","c","d","e","f","g","h","i","j","k","l","m",
                  "n","o","p","q","r","s","t","u","v","w","x","y","z">>

IndexIn(c, alphabet) ==
    IF \E i \in 1..Len(alphabet) : alphabet[i] = c
    THEN CHOOSE i \in 1..Len(alphabet) : alphabet[i] = c
    ELSE 0

\* the string as it came
KeepCase(s) == s

\* String.prototype.toLowerCase on the characters the model uses
ToLowerCase(s) ==
    [i \in 1..Len(s) |->
        IF IndexIn(s[i], UpperLetters) > 0
        THEN LowerLetters[IndexIn(s[i], UpperLetters)]
        ELSE s[i]]

\* s.replace(/-/g, '')
StripDashes(s) == SelectSeq(s, LAMBDA c : c # "-")

-----------------------------------------------------------------------------
(* randomUUID(): a version-4 UUID string, 8-4-4-4-12.  The n-th value drawn  *)
(* is rendered from n, so that two draws never collide: the generator is   *)
(* taken to be collision-free.                                             *)

Pow16(k) == IF k = 0 THEN 1 ELSE IF k = 1 THEN 16 ELSE IF k = 2 THEN 256
            ELSE IF k = 3 THEN 4096 ELSE IF k = 4 THEN 65536 ELSE 1048576

Nibble(n, k) == IF k > 5 THEN 0 ELSE (n \div Pow16(k)) % 16

randomUUID(n) ==
    [i \in 1..36 |->
        IF i \in {9, 14, 19, 24} THEN "-"
        ELSE IF i = 15 THEN "4"
        ELSE IF i = 20 THEN "8"
        ELSE HexDigits[Nibble(n, 36 - i) + 1]]

PK_DEMO == <<"p","k","_","d","e","m","o","_">>
CS_DEMO == <<"c","s","_","d","e","m","o","_">>
WH_DEMO == <<"w","h","_","d","e","m","o","_">>
BEARER  == <<"B","e","a","r","e","r"," ">>

-----------------------------------------------------------------------------
(* JSON values.  An object is a record holding the fields that are present; *)
(* a number is tagged so that it can sit where a string or null can.       *)

EmptyObj == [f \in {} |-> Null]

Num(n) == <<"#", n>>

\* typeof v === 'number'
IsNum(v) == v # <<>> /\ v[1] = "#"

\* a body that is a string and no JSON object: res.json sends it as a JSON
\* string, axios hands it over as a string (the empty body as '')
Text(t) == [text |-> t]

\* obj.field, undefined (Null) when the field is absent
Field(obj, f) == IF f \in DOMAIN obj THEN obj[f] ELSE Null

\* obj.field ?? dflt
FieldOr(obj, f, dflt) == IF f \in DOMAIN obj THEN obj[f] ELSE dflt

-----------------------------------------------------------------------------
(* Config: part_003 lines 30-36 *)

SANDBOX    == <<"s","a","n","d","b","o","x">>
PRODUCTION == <<"p","r","o","d","u","c","t","i","o","n">>
DEMO       == <<"d","e","m","o">>

\* the values the two environment variables are given at startup (Null: unset)
\* and <<>>: set to the empty string); each set holds the other flag's word
PaynexusEnvValues == {Null, SANDBOX, PRODUCTION, DEMO}
McpEnvValues      == {Null, <<>>, DEMO, PRODUCTION, SANDBOX}

MCP_ENV == Coalesce(env.MCP_ENV, DEMO)

\* the two flags combined by exclusive or
IsSandboxXor == (env.PAYNEXUS_ENV = SANDBOX) # (MCP_ENV = DEMO)

IS_SANDBOX == env.PAYNEXUS_ENV = SANDBOX \/ MCP_ENV = DEMO

ModeName == IF IS_SANDBOX THEN "sandbox" ELSE "production"

-----------------------------------------------------------------------------
(* Helpers: part_003 lines 77-123 *)

extractBearer(auth) ==
    IF auth # Null /\ StartsWith(auth, BEARER) THEN SliceFrom(auth, 7) ELSE Null

\* the stored credential before the request's own
StoredFirst(bearer, stored) == Coalesce(stored, bearer)

\* extractBearer(req) ?? prodState.jwt, and the same with prodState.apiKey
CallToken(bearer, stored) == Coalesce(bearer, stored)

\* the Authorization header sent to the backend, Null for none
\* a header attached to every call, credential or not
authHeadersAlways(token) == BEARER \o token

authHeaders(token) == IF Truthy(token) THEN BEARER \o token ELSE Null

\* the request axios.post sends, under the config { headers }: a timeout is
\* what the config says, and none (Null) when it says nothing
backendPost(path, token, body) ==
    LET config == [headers |-> authHeaders(token)]
    IN  [path |-> path, Authorization |-> config.headers, body |-> body,
         timeout |-> Field(config, "timeout")]

\* the upstream status kept, the upstream body replaced by a fixed message
sendErrorMasked(err) ==
    [status |-> IF err.isAxios /\ err.hasResponse THEN err.status ELSE 502,
     resp   |-> [error |-> "Upstream request failed"]]

\* the upstream body kept, every upstream failure answered as a bad gateway
sendErrorBadGateway(err) ==
    [status |-> 502,
     resp   |-> IF err.isAxios /\ err.hasResponse /\ err.hasData
                THEN err.data
                ELSE [error |-> err.message]]

sendError(err) ==
    IF err.isAxios
    THEN [status |-> IF err.hasResponse THEN err.status ELSE 502,
          resp   |-> IF err.hasResponse /\ err.hasData
                     THEN err.data
                     ELSE [error |-> err.message]]
    ELSE [status |-> 500, resp |-> [error |-> "MCP internal error"]]

\* the session of the request's bearer token, Null-token and unknown token
\* both giving no session
HasDemoSession(auth) ==
    LET token == extractBearer(auth)
    IN  Truthy(token) /\ token \in DOMAIN demoSessions

\* the oldest session of the registry, whatever the bearer
getOldestDemoSession(auth) ==
    demoSessions[CHOOSE t \in DOMAIN demoSessions :
                    \A u \in DOMAIN demoSessions :
                        demoSessions[t].createdAt <= demoSessions[u].createdAt]

getDemoSession(auth) == demoSessions[extractBearer(auth)]

\* the 401 of the gate without its hint
UnauthorizedBare ==
    [status |-> 401,
     resp   |-> [error |-> "Unauthorized - no valid demo session.",
                 mode  |-> "sandbox"]]

Unauthorized ==
    [status |-> 401,
     resp   |-> [error |-> "Unauthorized - no valid demo session.",
                 hint  |-> "Call POST /auth/login first, then pass the token as Authorization: Bearer <token>.",
                 mode  |-> "sandbox"]]

\* a preview that is the whole key
PreviewWhole(key) == key

\* What becomes of a request whose handler throws.  The handlers are async
\* functions without a catch of their own: under Express 4 the rejection is
\* not handled and no response is ever sent (status 0 stands for that);
\* under Express 5 the default error handler answers 500 with an HTML page,
\* a body that is no JSON object.
Thrown ==
    {[status |-> 0,   resp |-> EmptyObj],
     [status |-> 500, resp |-> Text("<pre>TypeError</pre>")]}

\* a preview made without asking whether there is a key
PreviewUnasked(key) == SliceTo(key, 15) \o Ellipsis

\* key previews: `${key.slice(0, 15)}...`, null for no key
Preview(key) == IF Truthy(key) THEN SliceTo(key, 15) \o Ellipsis ELSE Null

-----------------------------------------------------------------------------
(* The exchange a step completes *)

Exchange(id, route, auth, body, status, resp, calls) ==
    [id |-> id, route |-> route, auth |-> auth, body |-> body,
     status |-> status, resp |-> resp, calls |-> calls]

NoExchange == Exchange(0, "none", Null, EmptyObj, 0, EmptyObj, <<>>)

\* an append that starts from an empty array: what was pushed before is lost
PushOntoEmpty(list, x) == <<x>>

\* Array.prototype.push
Push(list, x) == Append(list, x)

\* a map that holds the new entry and nothing else
MapSetAlone(map, k, v) == [x \in {k} |-> v]

\* Map.set(token, session)
MapSet(map, k, v) == [x \in DOMAIN map \cup {k} |-> IF x = k THEN v ELSE map[x]]

-----------------------------------------------------------------------------
(* What callers send *)

EMAIL == <<"d","e","m","o","@","x",".","i","o">>
PASSWORD == <<"p","w">>

\* a bearer token no login ever returned (in production: the caller's own)
CALLER_TOKEN == <<"t","o","k">>
JWT1 == <<"j","w","t","1">>
BASIC_AUTH == <<"B","a","s","i","c"," ","e","Q","=","=">>

\* a bearer header without a token, as req.headers has it: the HTTP parser
\* strips the white space that ends a header value
BEARER_ONLY == <<"B","e","a","r","e","r">>

\* Authorization header values: none, not a bearer, a bearer without a token,
\* a bearer of a token that is none of ours, and a bearer of each session token
AuthHeaderValues ==
    IF IS_SANDBOX
    THEN {Null, BASIC_AUTH, BEARER_ONLY, BEARER \o CALLER_TOKEN}
            \cup {BEARER \o t : t \in DOMAIN demoSessions}
    ELSE {Null, BEARER_ONLY, BEARER \o CALLER_TOKEN}

\* for the routes that never read the header
NoAuth == {Null}

LoginBodies ==
    {EmptyObj, [email |-> <<>>], [email |-> EMAIL],
     [email |-> EMAIL, password |-> PASSWORD]}

ForwardBodies == {EmptyObj, [jwt |-> <<>>], [jwt |-> JWT1]}

KeyBodies == {EmptyObj, [tag |-> "nightly"]}

RotateBodies == {EmptyObj}

EUR_UPPER == <<"E","U","R">>

EURO_UPPER == <<"E","U","R","O">>

\* the third one with a currency that is a number, not a string, the last
\* one with a currency of four letters
CheckoutBodies ==
    {EmptyObj, [amount |-> Num(2500), currency |-> EUR_UPPER],
     [currency |-> Num(840)], [currency |-> EURO_UPPER]}

\* the last one with a list of events that is there and empty
WebhookBodies ==
    {EmptyObj,
     [url |-> "https://example.test/hook", events |-> <<"checkout.confirmed">>],
     [events |-> <<>>]}

-----------------------------------------------------------------------------
(* Sandbox records: part_003 lines 40-63 *)

\* a token computed once, when the module loads, and handed to every login
NewTokenOnce(n) == randomUUID(1)

\* const token = randomUUID(), on the n-th draw of the process
NewToken(n) == randomUUID(n)

DemoSession(token, email, now) ==
    [token |-> token, email |-> email, apiKey |-> Null,
     checkouts |-> <<>>, webhooks |-> <<>>, createdAt |-> now]

CanReceive == reqCount < (IF IS_SANDBOX THEN MaxRequests ELSE MaxProdRequests)

\* a handler that asks the backend before it answers
AnswerViaBackend(route, auth, body, status, resp) ==
    /\ reqCount' = reqCount + 1
    /\ last' = Exchange(reqCount + 1, route, auth, body, status, resp,
                        <<[call |-> backendPost(route, extractBearer(auth), body),
                           outcome |-> [ok |-> TRUE, data |-> resp]]>>)

\* a handler that answers at once and changes nothing but the exchange log
Answer(route, auth, body, status, resp) ==
    /\ reqCount' = reqCount + 1
    /\ last' = Exchange(reqCount + 1, route, auth, body, status, resp, <<>>)

-----------------------------------------------------------------------------
(* GET /health: part_003 lines 132-142 *)

\* the requests received so far, whatever they were
RequestsReceived == reqCount

\* demoSessions.size
SessionCount == Cardinality(DOMAIN demoSessions)

GetHealth ==
    /\ CanReceive
    /\ Answer("GET /health", Null, EmptyObj, 200,
              IF IS_SANDBOX
              THEN [status |-> "ok", service |-> "paynexus-mcp", mode |-> "sandbox",
                    env |-> MCP_ENV, backend |-> "(not used in sandbox mode)",
                    sessions |-> SessionCount]
              ELSE [status |-> "ok", service |-> "paynexus-mcp", mode |-> "production",
                    env |-> MCP_ENV, backend |-> "BACKEND"])
    /\ UNCHANGED <<env, demoSessions, prodState, uuidCount, inflight, issuedTokens, sig, libraryVars>>

(* POST /auth/login: part_003 lines 149-192 *)

\* a login that wants a password as well
NoEmailOrPassword(body) ==
    ~Truthy(Field(body, "email")) \/ ~Truthy(Field(body, "password"))

\* if (!email)
NoEmail(body) == ~Truthy(Field(body, "email"))

\* a login open in both modes
LoginOpen == FALSE

\* if (!IS_SANDBOX): the login route is closed
LoginClosed == ~IS_SANDBOX

AuthLogin(auth, body) ==
    /\ CanReceive
    /\ IF LoginClosed
       THEN /\ Answer("POST /auth/login", auth, body, 404,
                      [error |-> "/auth/login is only available in sandbox mode.",
                       hint  |-> "Use POST /auth/forward with a real Supabase JWT in production."])
            /\ UNCHANGED <<demoSessions, uuidCount, issuedTokens>>
       ELSE IF NoEmail(body)
       THEN /\ Answer("POST /auth/login", auth, body, 400,
                      [error |-> "Provide email in request body."])
            /\ UNCHANGED <<demoSessions, uuidCount, issuedTokens>>
       ELSE LET token   == NewToken(uuidCount + 1)
                session == DemoSession(token, body.email, reqCount + 1)
            IN  /\ uuidCount' = uuidCount + 1
                /\ demoSessions' = MapSet(demoSessions, token, session)
                /\ issuedTokens' = Append(issuedTokens, token)
                /\ Answer("POST /auth/login", auth, body, 200,
                          [ok |-> TRUE, token |-> token, email |-> body.email,
                           mode |-> "sandbox",
                           message |-> "Demo session created. Pass token as: Authorization: Bearer <token>",
                           warning |-> "Sandbox session only. No real authentication occurred."])
    /\ UNCHANGED <<env, prodState, inflight, sig, libraryVars>>

(* POST /auth/forward: part_003 lines 199-220 *)

\* the token put where the API key is kept
StoreJwtAsKey(slot, token) == [slot EXCEPT !.apiKey = token]

\* prodState.jwt = token
StoreJwt(slot, token) == [slot EXCEPT !.jwt = token]

AuthForward(auth, body) ==
    LET token == FieldOr(body, "jwt", extractBearer(auth))
    IN  /\ CanReceive
        /\ IF ~Truthy(token)
           THEN /\ Answer("POST /auth/forward", auth, body, 400,
                          [error |-> IF IS_SANDBOX
                                     THEN "Provide jwt in body. In sandbox mode, prefer POST /auth/login instead."
                                     ELSE "Provide jwt in body or Authorization: Bearer <token>"])
                /\ UNCHANGED prodState
           ELSE /\ prodState' = StoreJwt(prodState, token)
                /\ Answer("POST /auth/forward", auth, body, 200,
                          [ok |-> TRUE, mode |-> ModeName,
                           message |-> IF IS_SANDBOX
                                       THEN "JWT stored in legacy state. For the full demo flow, use POST /auth/login."
                                       ELSE "JWT stored. Call POST /api-keys/create next."])
        /\ UNCHANGED <<env, demoSessions, uuidCount, inflight, issuedTokens, sig, libraryVars>>

-----------------------------------------------------------------------------
(* The backend, as the production handlers see it: the outcome of one       *)
(* axios.post.  A non-2xx answer and a transport failure both reject with   *)
(* an AxiosError; only the first carries a response.                        *)

K1 == <<"k","1">>
K2 == <<"k","2">>

OkData == {[id |-> "obj_1"], [raw_key |-> K1], [key |-> K2]}

HttpError(status, hasData, data) ==
    [isAxios |-> TRUE, hasResponse |-> TRUE, status |-> status,
     hasData |-> hasData, data |-> data,
     message |-> "Request failed"]

NetworkError ==
    [isAxios |-> TRUE, hasResponse |-> FALSE, status |-> 0,
     hasData |-> FALSE, data |-> EmptyObj,
     message |-> "connect ECONNREFUSED"]

\* the backend's failures: a refusal with a JSON error body, one with a JSON
\* body that has no error field, one whose body is the JSON null (data is
\* null), one with an empty body (data is ''), and a failure in transit
BackendErrors ==
    {HttpError(401, TRUE, [error |-> "invalid token"]),
     HttpError(404, TRUE, [message |-> "Not Found"]),
     HttpError(500, FALSE, EmptyObj),
     HttpError(503, TRUE, Text("")),
     NetworkError}

BackendOutcomes ==
    {[ok |-> TRUE, data |-> d, err |-> NetworkError] : d \in OkData}
        \cup {[ok |-> FALSE, data |-> EmptyObj, err |-> e] : e \in BackendErrors}

\* a production request starts: its first backend call is sent
Await(route, auth, body, call) ==
    /\ Cardinality(DOMAIN inflight) < MaxInflight
    /\ reqCount' = reqCount + 1
    /\ inflight' = MapSet(inflight, reqCount + 1,
                          [route |-> route, auth |-> auth, body |-> body,
                           pending |-> call, calls |-> <<>>])
    /\ last' = NoExchange

\* the answered calls of request id once its pending call got outcome out
Answered(id, out) ==
    Append(inflight[id].calls, [call |-> inflight[id].pending, outcome |-> out])

\* request id is over: its response goes out
Finish(id, out, status, resp) ==
    /\ inflight' = [x \in DOMAIN inflight \ {id} |-> inflight[x]]
    /\ last' = Exchange(id, inflight[id].route, inflight[id].auth,
                        inflight[id].body, status, resp, Answered(id, out))
    /\ UNCHANGED reqCount

\* request id goes on with another backend call
Retry(id, out, call) ==
    /\ inflight' = [inflight EXCEPT ![id].pending = call,
                                    ![id].calls = Answered(id, out)]
    /\ last' = NoExchange
    /\ UNCHANGED reqCount

Waiting(id, route, path) ==
    /\ id \in DOMAIN inflight
    /\ inflight[id].route = route
    /\ inflight[id].pending.path = path

-----------------------------------------------------------------------------
(* POST /api-keys/create: part_003 lines 228-272 *)

\* a key made from the first UUID the process drew, whichever draw this is
DemoKeyReused(n) == PK_DEMO \o StripDashes(randomUUID(1))

\* `pk_demo_${randomUUID().replace(/-/g, '')}`, on the n-th draw of the process
DemoKey(n) == PK_DEMO \o StripDashes(randomUUID(n))

\* the slot left as it is
StoreNothing(slot, data) == slot

\* if (r.data?.raw_key) prodState.apiKey = r.data.raw_key
\* the slot written once: a key is stored while the slot holds none
StoreRawKeyOnce(slot, data) ==
    IF Truthy(Field(data, "raw_key")) /\ slot.apiKey = Null
    THEN [slot EXCEPT !.apiKey = data.raw_key]
    ELSE slot

StoreRawKey(slot, data) ==
    IF Truthy(Field(data, "raw_key")) THEN [slot EXCEPT !.apiKey = data.raw_key]
    ELSE slot

\* the legacy body read like the primary one
StoreLegacyKeyAsRaw(slot, data) ==
    IF Truthy(Field(data, "raw_key")) THEN [slot EXCEPT !.apiKey = data.raw_key]
    ELSE slot

\* if (r2.data?.key) prodState.apiKey = r2.data.key
StoreLegacyKey(slot, data) ==
    IF Truthy(Field(data, "key")) THEN [slot EXCEPT !.apiKey = data.key]
    ELSE slot

ApiKeysCreate(auth, body) ==
    /\ CanReceive
    /\ IF IS_SANDBOX
       THEN /\ IF ~HasDemoSession(auth)
               THEN /\ Answer("POST /api-keys/create", auth, body,
                              Unauthorized.status, Unauthorized.resp)
                    /\ UNCHANGED <<demoSessions, uuidCount>>
               ELSE LET session == getDemoSession(auth)
                        key     == DemoKey(uuidCount + 1)
                    IN  /\ uuidCount' = uuidCount + 1
                        /\ demoSessions' =
                              [demoSessions EXCEPT ![session.token].apiKey = key]
                        /\ Answer("POST /api-keys/create", auth, body, 200,
                                  [ok |-> TRUE, key |-> key, mode |-> "sandbox",
                                   session |-> session.email,
                                   warning |-> "Demo API key - stored in memory only. Not valid for real transactions."])
            /\ UNCHANGED inflight
       ELSE LET token  == CallToken(extractBearer(auth), prodState.jwt)
                v1Body == [org_id |-> FieldOr(body, "org_id", "demo-org"),
                           tag    |-> FieldOr(body, "tag", "ai-agent"),
                           env    |-> FieldOr(body, "env", "sandbox")]
            IN  /\ Await("POST /api-keys/create", auth, body,
                         backendPost("/v1/api-keys/create", token, v1Body))
                /\ UNCHANGED <<demoSessions, uuidCount>>
    /\ UNCHANGED <<env, prodState, issuedTokens, sig, libraryVars>>

\* the try block and its catch, once the v1 call is answered
ApiKeysCreateV1(id, out) ==
    /\ Waiting(id, "POST /api-keys/create", "/v1/api-keys/create")
    /\ IF out.ok
       THEN /\ prodState' = StoreRawKey(prodState, out.data)
            /\ Finish(id, out, 200, out.data)
       ELSE /\ Retry(id, out,
                     backendPost("/api/keys/create", Null,
                                 [tag |-> FieldOr(inflight[id].body, "tag", "ai-agent")]))
            /\ UNCHANGED prodState
    /\ UNCHANGED <<env, demoSessions, uuidCount, issuedTokens, sig, libraryVars>>

\* the inner try block and its catch, once the legacy call is answered
ApiKeysCreateLegacy(id, out) ==
    /\ Waiting(id, "POST /api-keys/create", "/api/keys/create")
    /\ IF out.ok
       THEN /\ prodState' = StoreLegacyKey(prodState, out.data)
            /\ Finish(id, out, 200, out.data)
       ELSE /\ Finish(id, out, sendError(out.err).status, sendError(out.err).resp)
            /\ UNCHANGED prodState
    /\ UNCHANGED <<env, demoSessions, uuidCount, issuedTokens, sig, libraryVars>>

-----------------------------------------------------------------------------
(* POST /api-keys/rotate: part_003 lines 279-311 *)

ApiKeysRotate(auth, body) ==
    /\ CanReceive
    /\ IF IS_SANDBOX
       THEN /\ IF ~HasDemoSession(auth)
               THEN /\ Answer("POST /api-keys/rotate", auth, body,
                              Unauthorized.status, Unauthorized.resp)
                    /\ UNCHANGED <<demoSessions, uuidCount>>
               ELSE LET session == getDemoSession(auth)
                        oldKey  == session.apiKey
                        newKey  == DemoKey(uuidCount + 1)
                    IN  /\ uuidCount' = uuidCount + 1
                        /\ demoSessions' =
                              [demoSessions EXCEPT ![session.token].apiKey = newKey]
                        /\ Answer("POST /api-keys/rotate", auth, body, 200,
                                  [ok |-> TRUE, key |-> newKey, rotated |-> TRUE,
                                   old_key |-> Preview(oldKey), mode |-> "sandbox",
                                   warning |-> "Demo key rotation. No real keys were affected."])
            /\ UNCHANGED inflight
       ELSE LET token == CallToken(extractBearer(auth), prodState.apiKey)
            IN  /\ Await("POST /api-keys/rotate", auth, body,
                         backendPost("/v1/api-keys/rotate", token, body))
                /\ UNCHANGED <<demoSessions, uuidCount>>
    /\ UNCHANGED <<env, prodState, issuedTokens, sig, libraryVars>>

ApiKeysRotateV1(id, out) ==
    /\ Waiting(id, "POST /api-keys/rotate", "/v1/api-keys/rotate")
    /\ IF out.ok
       THEN /\ prodState' = StoreRawKey(prodState, out.data)
            /\ Finish(id, out, 200, out.data)
       ELSE /\ Finish(id, out, sendError(out.err).status, sendError(out.err).resp)
            /\ UNCHANGED prodState
    /\ UNCHANGED <<env, demoSessions, uuidCount, issuedTokens, sig, libraryVars>>

-----------------------------------------------------------------------------
(* POST /checkout/demo: part_003 lines 319-366.  expires_at, a fixed offset  *)
(* of the wall clock, is left out of the response.                          *)

USD == <<"u","s","d">>

\* https://checkout.paynexus.demo/, the host written short
CHECKOUT_URL == <<"h","t","t","p","s",":","/","/","c","o",".","d","e","m","o","/">>

CheckoutDemo(auth, body) ==
    /\ CanReceive
    /\ IF IS_SANDBOX
       THEN /\ IF ~HasDemoSession(auth)
               THEN /\ Answer("POST /checkout/demo", auth, body,
                              Unauthorized.status, Unauthorized.resp)
                    /\ UNCHANGED <<demoSessions, uuidCount>>
               ELSE IF IsNum(FieldOr(body, "currency", USD))
               THEN /\ \E thrown \in Thrown :
                          Answer("POST /checkout/demo", auth, body,
                                 thrown.status, thrown.resp)
                    /\ UNCHANGED <<demoSessions, uuidCount>>
               ELSE LET session  == getDemoSession(auth)
                        amount   == FieldOr(body, "amount", Num(4900))
                        currency == ToLowerCase(FieldOr(body, "currency", USD))
                        now      == reqCount + 1
                        checkout ==
                            [id          |-> CS_DEMO \o StripDashes(randomUUID(uuidCount + 1)),
                             object      |-> "checkout_session",
                             amount      |-> amount,
                             currency    |-> currency,
                             status      |-> "pending",
                             created_at  |-> now,
                             merchant    |-> session.email,
                             api_key     |-> Preview(session.apiKey),
                             payment_url |-> CHECKOUT_URL \o randomUUID(uuidCount + 2),
                             metadata    |-> FieldOr(body, "metadata", EmptyObj),
                             mode        |-> "sandbox"]
                    IN  /\ uuidCount' = uuidCount + 2
                        /\ demoSessions' =
                              [demoSessions EXCEPT ![session.token].checkouts =
                                  Push(@, [id |-> checkout.id, amount |-> amount,
                                           currency |-> currency,
                                           status |-> "pending", createdAt |-> now])]
                        /\ Answer("POST /checkout/demo", auth, body, 200, checkout)
            /\ UNCHANGED inflight
       ELSE LET token  == CallToken(extractBearer(auth), prodState.apiKey)
                merged == [f \in {"amount", "currency"} \cup DOMAIN body |->
                              IF f \in DOMAIN body THEN body[f]
                              ELSE IF f = "amount" THEN Num(4900) ELSE USD]
            IN  /\ Await("POST /checkout/demo", auth, body,
                         backendPost("/v1/checkout/create", token, merged))
                /\ UNCHANGED <<demoSessions, uuidCount>>
    /\ UNCHANGED <<env, prodState, issuedTokens, sig, libraryVars>>

CheckoutDemoV1(id, out) ==
    /\ Waiting(id, "POST /checkout/demo", "/v1/checkout/create")
    /\ IF out.ok
       THEN Finish(id, out, 200, out.data)
       ELSE Retry(id, out,
                  backendPost("/api/checkout/create", Null, inflight[id].pending.body))
    /\ UNCHANGED <<env, demoSessions, prodState, uuidCount, issuedTokens, sig, libraryVars>>

CheckoutDemoLegacy(id, out) ==
    /\ Waiting(id, "POST /checkout/demo", "/api/checkout/create")
    /\ IF out.ok
       THEN Finish(id, out, 200, out.data)
       ELSE Finish(id, out, sendError(out.err).status, sendError(out.err).resp)
    /\ UNCHANGED <<env, demoSessions, prodState, uuidCount, issuedTokens, sig, libraryVars>>

-----------------------------------------------------------------------------
(* POST /webhooks/create: part_003 lines 373-415 *)

DefaultEvents == <<"checkout.confirmed", "transaction.succeeded">>

WebhooksCreate(auth, body) ==
    /\ CanReceive
    /\ IF IS_SANDBOX
       THEN /\ IF ~HasDemoSession(auth)
               THEN /\ Answer("POST /webhooks/create", auth, body,
                              Unauthorized.status, Unauthorized.resp)
                    /\ UNCHANGED <<demoSessions, uuidCount>>
               ELSE LET session == getDemoSession(auth)
                        now     == reqCount + 1
                        webhook ==
                            [id         |-> WH_DEMO \o StripDashes(randomUUID(uuidCount + 1)),
                             url        |-> FieldOr(body, "url", "https://webhook.site/demo"),
                             events     |-> FieldOr(body, "events", DefaultEvents),
                             status     |-> "active",
                             created_at |-> now,
                             mode       |-> "sandbox"]
                    IN  /\ uuidCount' = uuidCount + 1
                        /\ demoSessions' =
                              [demoSessions EXCEPT ![session.token].webhooks =
                                  Push(@, [id |-> webhook.id, url |-> webhook.url,
                                           events |-> webhook.events,
                                           createdAt |-> now])]
                        /\ Answer("POST /webhooks/create", auth, body, 200, webhook)
            /\ UNCHANGED inflight
       ELSE LET token == CallToken(extractBearer(auth), prodState.apiKey)
            IN  /\ Await("POST /webhooks/create", auth, body,
                         backendPost("/v1/webhooks", token,
                                     [url    |-> FieldOr(body, "url", "https://webhook.site/demo"),
                                      events |-> FieldOr(body, "events", DefaultEvents)]))
                /\ UNCHANGED <<demoSessions, uuidCount>>
    /\ UNCHANGED <<env, prodState, issuedTokens, sig, libraryVars>>

WebhooksCreateV1(id, out) ==
    /\ Waiting(id, "POST /webhooks/create", "/v1/webhooks")
    /\ IF out.ok
       THEN Finish(id, out, 200, out.data)
       ELSE Finish(id, out, sendError(out.err).status, sendError(out.err).resp)
    /\ UNCHANGED <<env, demoSessions, prodState, uuidCount, issuedTokens, sig, libraryVars>>

-----------------------------------------------------------------------------
(* GET /session and GET /sessions: part_003 lines 422-465 *)

\* the handler without its mode guard: the session gate answers in both modes
GetSessionUnguarded(auth) ==
    /\ CanReceive
    /\ IF ~HasDemoSession(auth)
       THEN Answer("GET /session", auth, EmptyObj,
                   Unauthorized.status, Unauthorized.resp)
       ELSE Answer("GET /session", auth, EmptyObj, 200,
                   [email |-> getDemoSession(auth).email, mode |-> "sandbox"])
    /\ UNCHANGED <<env, demoSessions, prodState, uuidCount, inflight, issuedTokens, sig, libraryVars>>

GetSession(auth) ==
    /\ CanReceive
    /\ IF ~IS_SANDBOX
       THEN Answer("GET /session", auth, EmptyObj, 404,
                   [error |-> "Not available in production mode."])
       ELSE IF ~HasDemoSession(auth)
       THEN Answer("GET /session", auth, EmptyObj,
                   Unauthorized.status, Unauthorized.resp)
       ELSE LET session == getDemoSession(auth)
            IN  Answer("GET /session", auth, EmptyObj, 200,
                       [email     |-> session.email,
                        mode      |-> "sandbox",
                        hasApiKey |-> session.apiKey # Null,
                        apiKey    |-> Preview(session.apiKey),
                        checkouts |-> session.checkouts,
                        webhooks  |-> session.webhooks,
                        createdAt |-> session.createdAt,
                        warning   |-> "Sandbox session - in-memory only, resets on server restart."])
    /\ UNCHANGED <<env, demoSessions, prodState, uuidCount, inflight, issuedTokens, sig, libraryVars>>

\* Array.from(demoSessions.values()).map(...): the summaries in insertion
\* order, which is the order of the tokens' creation times
\* a summary that names the session by its token
SessionSummaryWithToken(s) ==
    [token |-> s.token, email |-> s.email, hasApiKey |-> s.apiKey # Null,
     checkouts |-> Len(s.checkouts), webhooks |-> Len(s.webhooks),
     createdAt |-> s.createdAt]

SessionSummary(s) ==
    [email |-> s.email, hasApiKey |-> s.apiKey # Null,
     checkouts |-> Len(s.checkouts), webhooks |-> Len(s.webhooks),
     createdAt |-> s.createdAt]

RECURSIVE SessionList(_)
SessionList(tokens) ==
    IF tokens = {} THEN <<>>
    ELSE LET t == CHOOSE x \in tokens :
                     \A y \in tokens : demoSessions[x].createdAt <= demoSessions[y].createdAt
         IN  <<SessionSummary(demoSessions[t])>> \o SessionList(tokens \ {t})

GetSessions ==
    /\ CanReceive
    /\ IF ~IS_SANDBOX
       THEN Answer("GET /sessions", Null, EmptyObj, 404,
                   [error |-> "Not available in production mode."])
       ELSE LET list == SessionList(DOMAIN demoSessions)
            IN  Answer("GET /sessions", Null, EmptyObj, 200,
                       [mode |-> "sandbox", total |-> Len(list), sessions |-> list])
    /\ UNCHANGED <<env, demoSessions, prodState, uuidCount, inflight, issuedTokens, sig, libraryVars>>

-----------------------------------------------------------------------------
(* WebhookManager.verifySignature: client.ts lines 114-131.                 *)
(* Payloads and secrets are the byte sequences of their UTF-8 encodings.    *)

\* the bytes payloads and secrets are made of
ByteValues == {0, 97}

\* the sequences over S of length at most n
RECURSIVE SeqsUpTo(_, _)
SeqsUpTo(S, n) ==
    IF n = 0 THEN {<<>>}
    ELSE LET shorter == SeqsUpTo(S, n - 1)
         IN  shorter \cup {Append(q, x) : q \in {r \in shorter : Len(r) = n - 1}, x \in S}

ByteStrings == SeqsUpTo(ByteValues, MaxLen)

\* createHmac('sha256', secret).update(payload).digest(): 32 bytes.
\* HMAC pads a short key with zero bytes to the block size before use, and
\* the hash is taken to be collision-free: the digest is an injective,
\* position-mixed coding of (padded key, payload) for keys and payloads of
\* up to KeySlots bytes.
DigestLen == 32
KeySlots == (DigestLen - 1) \div 2

PaddedKey(secret) ==
    [i \in 1..KeySlots |-> IF i <= Len(secret) THEN secret[i] ELSE 0]

Mix(i, b) == (167 * b + 31 * i + 89) % 256

\* a digest of the payload alone
DigestOfPayload(secret, payload) ==
    [i \in 1..DigestLen |->
        Mix(i, IF i = 1 THEN Len(payload)
               ELSE IF i - 1 <= Len(payload) THEN payload[i - 1] ELSE 0)]

HmacSha256(secret, payload) ==
    [i \in 1..DigestLen |->
        Mix(i, IF i = 1 THEN Len(payload)
               ELSE IF i <= 1 + KeySlots
                    THEN (IF i - 1 <= Len(payload) THEN payload[i - 1] ELSE 0)
               ELSE IF i <= 1 + 2 * KeySlots
                    THEN PaddedKey(secret)[i - 1 - KeySlots]
               ELSE 0)]

\* digest('hex'): two lower-case hex digits per byte
HexEncode(bytes) ==
    [i \in 1..(2 * Len(bytes)) |->
        LET b == bytes[(i + 1) \div 2]
        IN  HexDigits[(IF i % 2 = 1 THEN b \div 16 ELSE b % 16) + 1]]

UpperHexDigits == <<"0","1","2","3","4","5","6","7","8","9","A","B","C","D","E","F">>

\* the value of each hex digit, of either case
HexValue ==
    [c \in {HexDigits[d] : d \in 1..16} \cup {UpperHexDigits[d] : d \in 1..16} |->
        (CHOOSE d \in 1..16 : HexDigits[d] = c \/ UpperHexDigits[d] = c) - 1]

\* the value of a hex digit, -1 for any other character
Unhex(c) == IF c \in DOMAIN HexValue THEN HexValue[c] ELSE -1

\* Buffer.from(s, 'hex'): the bytes of the pairs of hex digits of s, up to
\* the first pair that is not two hex digits; a trailing odd character is
\* dropped.  It does not throw on a string.
HexDecode(s) ==
    LET pairs == Len(s) \div 2
        bad   == {i \in 1..pairs : Unhex(s[2 * i - 1]) < 0 \/ Unhex(s[2 * i]) < 0}
        n     == IF bad = {} THEN pairs
                 ELSE (CHOOSE i \in bad : \A j \in bad : i <= j) - 1
    IN  [i \in 1..n |-> 16 * Unhex(s[2 * i - 1]) + Unhex(s[2 * i])]

\* crypto.timingSafeEqual: throws on buffers of different byte length
timingSafeEqual(a, b) ==
    IF Len(a) # Len(b) THEN "throw" ELSE IF a = b THEN "true" ELSE "false"

\* the body of the try block: "true", "false", or "throw"
VerifyTry(payload, signature, secret) ==
    IF signature = Null THEN "throw"
    ELSE LET expectedSignature == HexEncode(HmacSha256(secret, payload))
             expectedBuffer    == HexDecode(expectedSignature)
             signatureBuffer   == HexDecode(signature)
         IN  IF Len(expectedBuffer) # Len(signatureBuffer) THEN "false"
             ELSE timingSafeEqual(expectedBuffer, signatureBuffer)

\* try { ... } catch { return false }: "true" or "false"
verifySignature(payload, signature, secret) ==
    LET r == VerifyTry(payload, signature, secret)
    IN  IF r = "throw" THEN "false" ELSE r

\* the sender's side: the hex HMAC of the payload under the shared secret
Sign(payload, secret) == HexEncode(HmacSha256(secret, payload))

-----------------------------------------------------------------------------
(* Calls of the verifier.  A run starts with a payload and a secret; the   *)
(* sender signs the payload, and the verifier is called once with the      *)
(* three values, one of them possibly altered on the way.                   *)

\* the characters a signature string is altered with: hex digits of both
\* cases and a character that is no hex digit
SigChars == {"0", "1", "a", "A", "b", "B", "g"}

\* what is appended to a signature
Suffixes == {<<"0">>, <<"g">>, <<"0", "0">>, <<"z", "z">>, <<"a", "b", "c">>}

SetAt(s, i, x) == [s EXCEPT ![i] = x]

SigCall(op, payload, signature, secret) ==
    [op |-> op, payload0 |-> sig.payload0, secret0 |-> sig.secret0,
     signature0 |-> sig.signature0,
     payload |-> payload, signature |-> signature, secret |-> secret,
     result |-> verifySignature(payload, signature, secret)]

SigStart(payload, secret) ==
    [op |-> "idle", payload0 |-> payload, secret0 |-> secret,
     signature0 |-> Sign(payload, secret),
     payload |-> payload, signature |-> Null, secret |-> secret,
     result |-> "none"]

Idle == sig.op = "idle"

VerifySigned ==
    /\ Idle
    /\ sig' = SigCall("signed", sig.payload0, sig.signature0, sig.secret0)
    /\ UNCHANGED <<gatewayVars, libraryVars>>

VerifyPayloadChanged(i, b) ==
    /\ Idle
    /\ i \in 1..Len(sig.payload0)
    /\ b # sig.payload0[i]
    /\ sig' = SigCall("payload changed", SetAt(sig.payload0, i, b),
                      sig.signature0, sig.secret0)
    /\ UNCHANGED <<gatewayVars, libraryVars>>

VerifySecretChanged(i, b) ==
    /\ Idle
    /\ i \in 1..Len(sig.secret0)
    /\ b # sig.secret0[i]
    /\ sig' = SigCall("secret changed", sig.payload0,
                      sig.signature0, SetAt(sig.secret0, i, b))
    /\ UNCHANGED <<gatewayVars, libraryVars>>

VerifySignatureChanged(i, c) ==
    /\ Idle
    /\ i \in 1..Len(sig.signature0)
    /\ c # sig.signature0[i]
    /\ sig' = SigCall("signature changed", sig.payload0,
                      SetAt(sig.signature0, i, c), sig.secret0)
    /\ UNCHANGED <<gatewayVars, libraryVars>>

VerifySignatureExtended(suffix) ==
    /\ Idle
    /\ sig' = SigCall("signature extended", sig.payload0,
                      sig.signature0 \o suffix, sig.secret0)
    /\ UNCHANGED <<gatewayVars, libraryVars>>

VerifySignatureCut(n) ==
    /\ Idle
    /\ n \in 0..(Len(sig.signature0) - 1)
    /\ sig' = SigCall("signature cut", sig.payload0,
                      SubSeq(sig.signature0, 1, n), sig.secret0)
    /\ UNCHANGED <<gatewayVars, libraryVars>>

VerifySignatureMissing ==
    /\ Idle
    /\ sig' = SigCall("signature missing", sig.payload0, Null, sig.secret0)
    /\ UNCHANGED <<gatewayVars, libraryVars>>

-----------------------------------------------------------------------------
(* The client library: JSON values as a tree.  Every value has the same     *)
(* shape, so that values of different types sit in one set: kind is what    *)
(* typeof and null tell apart, str the characters of a string, fields the   *)
(* own enumerable properties of an object; an array has its indices as      *)
(* property names, as a spread of it has.                                   *)

NoFields == [f \in {} |-> Null]

JUndefined    == [kind |-> "undefined", str |-> <<>>, num |-> 0, fields |-> NoFields]
JNull         == [kind |-> "null",      str |-> <<>>, num |-> 0, fields |-> NoFields]
JString(s)    == [kind |-> "string",    str |-> s,    num |-> 0, fields |-> NoFields]
JNumber(n)    == [kind |-> "number",    str |-> <<>>, num |-> n, fields |-> NoFields]
JObject(fs)   == [kind |-> "object",    str |-> <<>>, num |-> 0, fields |-> fs]

IndexKeys == <<"0", "1", "2">>

JArray(items) ==
    [kind |-> "array", str |-> <<>>, num |-> 0,
     fields |-> [k \in {IndexKeys[i] : i \in 1..Len(items)} |->
                    items[IndexIn(k, IndexKeys)]]]

\* typeof v === 'object'
TypeofObject(v) == v.kind \in {"object", "array", "null"}

\* JavaScript truthiness
JTruthy(v) ==
    /\ v.kind \notin {"undefined", "null"}
    /\ v.kind = "string" => v.str # <<>>
    /\ v.kind = "number" => v.num # 0

\* v.f
JField(v, f) == IF f \in DOMAIN v.fields THEN v.fields[f] ELSE JUndefined

\* const { f } = v throws a TypeError on null and undefined
Destructurable(v) == v.kind \notin {"undefined", "null"}

\* `${v}` for a string or undefined
TemplateString(v) ==
    IF v.kind = "string" THEN v.str
    ELSE <<"u","n","d","e","f","i","n","e","d">>

\* JSON.stringify leaves out the properties that are undefined
RECURSIVE Stringified(_)
Stringified(v) ==
    IF v.kind \notin {"object", "array"} THEN v
    ELSE [v EXCEPT !.fields =
            [k \in {f \in DOMAIN v.fields : v.fields[f].kind # "undefined"} |->
                Stringified(v.fields[k])]]

-----------------------------------------------------------------------------
(* StructuredLogger: part_002 lines 5-50.  The timestamp of an entry is     *)
(* left out.                                                                *)

PNX == <<"p","n","x","_">>
REDACTED == <<"*","*","*","R","E","D","A","C","T","E","D","*","*","*">>

LogLevels == <<"debug", "info", "warn", "error">>
UpperLevels == <<"DEBUG", "INFO", "WARN", "ERROR">>

shouldLog(level) == IndexIn(level, LogLevels) >= IndexIn(logLevel, LogLevels)

RECURSIVE sanitize(_)
sanitize(data) ==
    IF ~TypeofObject(data) \/ data.kind = "null" THEN data
    ELSE JObject([key \in DOMAIN data.fields |->
            LET value == data.fields[key]
            IN  IF value.kind = "string" /\ StartsWith(value.str, PNX)
                THEN JString(REDACTED)
                ELSE IF TypeofObject(value) THEN sanitize(value)
                ELSE value])

\* the line console[level] gets: JSON.stringify(logEntry), as the value it
\* denotes; an entry without data has data undefined
LogEntry(level, message, data) ==
    [level   |-> UpperLevels[IndexIn(level, LogLevels)],
     message |-> message,
     data    |-> IF JTruthy(data) THEN Stringified(sanitize(data))
                 ELSE JUndefined]

\* the lines a call of log() adds to the console
log(level, message, data) ==
    IF shouldLog(level) THEN <<LogEntry(level, message, data)>> ELSE <<>>

\* what the logger is called with: strings that are keys and strings that
\* are none, null, and objects and arrays of them down to depth MaxDepth
PNX_KEY1 == <<"p","n","x","_","l","i","v","e","_","1">>
NOTE == <<"n","o","t","e">>

LogStrings == {JString(PNX_KEY1), JString(NOTE)}

LogLeaves == LogStrings \cup {JNull}

RECURSIVE LogTrees(_)
LogTrees(depth) ==
    IF depth = 0 THEN LogLeaves
    ELSE LET below == LogTrees(depth - 1)
         IN  LogLeaves
                \cup {JObject(NoFields)}
                \cup {JObject("nested" :> t) : t \in below}
                \cup {JObject(("key" :> l) @@ ("nested" :> t)) :
                        l \in LogStrings, t \in below}
                \cup {JArray(<<t>>) : t \in below}

\* data is optional: a call without it has data undefined
LogData == LogTrees(MaxDepth) \cup {JUndefined, JString(<<>>)}

LogMessages == {"event"}

\* the library's variables but the console
quietVars == <<client, logLevel, pending, callCount, bytesCount, settled>>

\* logger.debug(message, data)
LoggerDebug(message, data) ==
    /\ console' = log("debug", message, data)
    /\ UNCHANGED <<gatewayVars, sig, quietVars>>

\* logger.info(message, data)
LoggerInfo(message, data) ==
    /\ console' = log("info", message, data)
    /\ UNCHANGED <<gatewayVars, sig, quietVars>>

\* logger.warn(message, data)
LoggerWarn(message, data) ==
    /\ console' = log("warn", message, data)
    /\ UNCHANGED <<gatewayVars, sig, quietVars>>

\* logger.error(message, data)
LoggerError(message, data) ==
    /\ console' = log("error", message, data)
    /\ UNCHANGED <<gatewayVars, sig, quietVars>>

-----------------------------------------------------------------------------
(* PaynexusClient: client.ts lines 5-64.  fetch is called before request    *)
(* first awaits, so a call of the library sends its request in the step    *)
(* that starts it; the step that settles it gets what fetch settled with.  *)
(* A string whose characters do not matter is a sequence of its pieces.    *)

PNX_KEY2 == <<"p","n","x","_","l","i","v","e","_","2">>
PNX_KEY3 == <<"p","n","x","_","l","i","v","e","_","3">>
BASE_URL == <<"https://api.paynexus.test">>

\* the config the constructor builds from the environment's values
DefaultConfig(e) == [apiKey |-> JString(PNX_KEY1), baseUrl |-> BASE_URL, env |-> e]

Unparseable == [kind |-> "unparseable", str |-> <<>>, num |-> 0, fields |-> NoFields]

\* what fetch settles with: a response (its json() rejecting when the body
\* is no JSON), or a rejection when the transport failed
HttpResponse(status, statusText, json) ==
    [failed |-> FALSE, ok |-> status \in 200..299, status |-> status,
     statusText |-> statusText, json |-> json]

FetchFailed ==
    [failed |-> TRUE, ok |-> FALSE, status |-> 0, statusText |-> "",
     json |-> Unparseable]

NoResponse ==
    [failed |-> FALSE, ok |-> FALSE, status |-> 0, statusText |-> "",
     json |-> Unparseable]

WH_ID == <<"wh_1">>

FetchOutcomes ==
    {HttpResponse(200, "OK", JObject("newKey" :> JString(PNX_KEY2))),
     HttpResponse(200, "OK", JObject("newKey" :> JString(PNX_KEY3))),
     HttpResponse(200, "OK", JObject("webhookId" :> JString(WH_ID))),
     HttpResponse(200, "OK", JNull),
     HttpResponse(200, "OK", Unparseable),
     HttpResponse(401, "Unauthorized",
                  JObject(("error" :> JString(<<"invalid key">>))
                            @@ ("key" :> JString(PNX_KEY1)))),
     HttpResponse(500, "Internal Server Error", Unparseable),
     FetchFailed}

\* the bearer of the client's first key, whatever its key is now
StaleAuthorization(config) == BEARER \o PNX_KEY1

\* 'Authorization': `Bearer ${this.config.apiKey}`
Authorization(config) == BEARER \o TemplateString(config.apiKey)

\* the request fetch is called with; no caller passes headers of its own
FetchRequest(config, path, method, body) ==
    [url |-> config.baseUrl \o path, method |-> method,
     Authorization |-> Authorization(config),
     ContentType |-> "application/json",
     XPaynexusEnv |-> config.env,
     body |-> body]

NoRequest ==
    [url |-> <<>>, method |-> "", Authorization |-> <<>>, ContentType |-> "",
     XPaynexusEnv |-> <<>>, body |-> JUndefined]

\* how a promise settled, and the lines logged on the way
Fulfilled(value, logs) ==
    [state |-> "fulfilled", value |-> value, reason |-> <<>>, logs |-> logs]

Rejected(reason, logs) ==
    [state |-> "rejected", value |-> JUndefined, reason |-> reason, logs |-> logs]

\* request(), from the point where fetch has settled with r
request(path, r) ==
    IF r.failed THEN Rejected(<<"fetch failed">>, <<>>)
    ELSE IF ~r.ok
    THEN LET errorData == IF r.json = Unparseable THEN JObject(NoFields)
                          ELSE r.json
         IN  Rejected(<<"Paynexus API Error: ", r.statusText>>,
                      log("error", "API_ERROR",
                          JObject([status |-> JNumber(r.status),
                                   path |-> JString(path),
                                   errorData |-> errorData])))
    ELSE IF r.json = Unparseable
    THEN Rejected(<<"Unexpected token in JSON">>, <<>>)
    ELSE Fulfilled(r.json, <<>>)

\* const { f } = await request(...), inside a try
Destructured(out, f) ==
    IF out.state = "rejected" THEN out
    ELSE IF ~Destructurable(out.value)
    THEN Rejected(<<"Cannot destructure property">>, out.logs)
    ELSE Fulfilled(JField(out.value, f), out.logs)

NoCall ==
    [id |-> 0, op |-> "none", state |-> "none", value |-> JUndefined,
     reason |-> <<>>, request |-> NoRequest, response |-> NoResponse,
     secret |-> <<>>]

CanCall ==
    /\ callCount < MaxCalls
    /\ Cardinality(DOMAIN pending) < MaxPending

\* a call of the library starts: fetch is called with its request
Sends(op, path, method, body, secret) ==
    /\ CanCall
    /\ callCount' = callCount + 1
    /\ pending' = MapSet(pending, callCount + 1,
                         [op |-> op, path |-> path, secret |-> secret,
                          request |-> FetchRequest(client.config, path,
                                                   method, body)])
    /\ settled' = NoCall

Awaits(id, op) == id \in DOMAIN pending /\ pending[id].op = op

\* call id settles
Settles(id, r, out) ==
    /\ pending' = [x \in DOMAIN pending \ {id} |-> pending[x]]
    /\ settled' = [id |-> id, op |-> pending[id].op, state |-> out.state,
                   value |-> out.value, reason |-> out.reason,
                   request |-> pending[id].request, response |-> r,
                   secret |-> pending[id].secret]
    /\ UNCHANGED callCount

\* fetchTransactions(): client.ts lines 50-52
TRANSACTIONS == <<"/v1/transactions">>

FetchTransactions ==
    /\ Sends("fetchTransactions", TRANSACTIONS, "GET", JUndefined, <<>>)
    /\ console' = <<>>
    /\ UNCHANGED <<gatewayVars, sig, client, logLevel, bytesCount>>

FetchTransactionsSettles(id, r) ==
    /\ Awaits(id, "fetchTransactions")
    /\ LET out == request(pending[id].path, r)
       IN  /\ Settles(id, r, out)
           /\ console' = out.logs
    /\ UNCHANGED <<gatewayVars, sig, client, logLevel, bytesCount>>

-----------------------------------------------------------------------------
(* rotateApiKey(client): part_003 lines 501-519 *)

AUTH_ROTATE == <<"/v1/auth/rotate">>

\* the key written whether or not the rotation succeeded
KeyAfterAlways(config, out) == out.value

\* client.config.apiKey = newKey, reached only when nothing threw
KeyAfter(config, out) ==
    IF out.state = "fulfilled" THEN out.value ELSE config.apiKey

RotateApiKey ==
    /\ Sends("rotateApiKey", AUTH_ROTATE, "POST", JUndefined, <<>>)
    /\ console' = log("info", "Starting API key rotation for environment",
                      JObject("env" :> JString(client.config.env)))
    /\ UNCHANGED <<gatewayVars, sig, client, logLevel, bytesCount>>

RotateApiKeySettles(id, r) ==
    /\ Awaits(id, "rotateApiKey")
    /\ LET out == Destructured(request(pending[id].path, r), "newKey")
       IN  /\ Settles(id, r, out)
           /\ client' = [client EXCEPT !.config.apiKey = KeyAfter(client.config, out)]
           /\ console' = out.logs \o
                (IF out.state = "fulfilled"
                 THEN log("info", "API key rotated successfully", JUndefined)
                 ELSE log("error", "ROTATION_FAILED",
                          JObject("error" :> JString(out.reason))))
    /\ UNCHANGED <<gatewayVars, sig, logLevel, bytesCount>>

-----------------------------------------------------------------------------
(* WebhookManager.registerWebhook: client.ts lines 81-109 *)

WEBHOOKS_REGISTER == <<"/v1/webhooks/register">>

\* randomBytes(32).toString('hex'): 64 hex digits.  The n-th value drawn is
\* rendered from n: the generator is taken to be collision-free.
generateSecret(n) == [i \in 1..64 |-> HexDigits[Nibble(n, 64 - i) + 1]]

\* a payload that keeps the secret to the caller
RegistrationWithoutSecret(url, events, secret) ==
    JObject([url |-> url, events |-> events])

\* JSON.stringify({ url, events, secret })
Registration(url, events, secret) ==
    JObject([url |-> url, events |-> events, secret |-> JString(secret)])

HOOK_URL == JString(<<"https://example.test/hook">>)

HookEvents ==
    {JArray(<<JString(<<"checkout.confirmed">>)>>),
     JArray(<<JString(<<"checkout.confirmed">>),
              JString(<<"transaction.succeeded">>)>>)}

RegisterWebhook(url, events) ==
    LET secret == generateSecret(bytesCount + 1)
    IN  /\ Sends("registerWebhook", WEBHOOKS_REGISTER, "POST",
                 Registration(url, events, secret), secret)
        /\ bytesCount' = bytesCount + 1
        /\ console' = log("info", "Registering new webhook",
                          JObject([url |-> url, events |-> events]))
        /\ UNCHANGED <<gatewayVars, sig, client, logLevel>>

RegisterWebhookSettles(id, r) ==
    /\ Awaits(id, "registerWebhook")
    /\ LET got == Destructured(request(pending[id].path, r), "webhookId")
           out == IF got.state = "rejected" THEN got
                  ELSE Fulfilled(JObject([webhookId |-> got.value,
                                          secret |-> JString(pending[id].secret)]),
                                 got.logs)
       IN  /\ Settles(id, r, out)
           /\ console' = got.logs \o
                (IF got.state = "fulfilled"
                 THEN log("info", "Webhook registered successfully",
                          JObject("webhookId" :> got.value))
                 ELSE log("error", "WEBHOOK_REGISTRATION_FAILED",
                          JObject("error" :> JString(got.reason))))
    /\ UNCHANGED <<gatewayVars, sig, client, logLevel, bytesCount>>

-----------------------------------------------------------------------------
(* Specifications *)

\* the environments the gateway is started in: nothing set (the deploy
\* default, sandbox) and both variables set to production
StartupEnvs ==
    {[PAYNEXUS_ENV |-> Null, MCP_ENV |-> Null],
     [PAYNEXUS_ENV |-> PRODUCTION, MCP_ENV |-> PRODUCTION]}

\* the client library before its first call, in a process configured for
\* production and logging from the default level on
LibraryIdle ==
    /\ client = [config |-> DefaultConfig(PRODUCTION)]
    /\ logLevel = "info"
    /\ pending = [i \in {} |-> Null]
    /\ callCount = 0
    /\ bytesCount = 0
    /\ settled = NoCall
    /\ console = <<>>

GatewayInit ==
    /\ env \in StartupEnvs
    /\ demoSessions = [t \in {} |-> Null]
    /\ prodState = [jwt |-> Null, apiKey |-> Null]
    /\ uuidCount = 0
    /\ reqCount = 0
    /\ inflight = [i \in {} |-> Null]
    /\ last = NoExchange
    /\ issuedTokens = <<>>

Init ==
    /\ GatewayInit
    /\ sig = SigStart(<<>>, <<>>)
    /\ LibraryIdle

Next ==
    \/ GetHealth
    \/ \E auth \in NoAuth, body \in LoginBodies : AuthLogin(auth, body)
    \/ \E auth \in AuthHeaderValues, body \in ForwardBodies : AuthForward(auth, body)
    \/ \E auth \in AuthHeaderValues, body \in KeyBodies : ApiKeysCreate(auth, body)
    \/ \E auth \in AuthHeaderValues, body \in RotateBodies : ApiKeysRotate(auth, body)
    \/ \E auth \in AuthHeaderValues, body \in CheckoutBodies : CheckoutDemo(auth, body)
    \/ \E auth \in AuthHeaderValues, body \in WebhookBodies : WebhooksCreate(auth, body)
    \/ \E auth \in AuthHeaderValues : GetSession(auth)
    \/ GetSessions
    \/ \E id \in DOMAIN inflight, out \in BackendOutcomes : ApiKeysCreateV1(id, out)
    \/ \E id \in DOMAIN inflight, out \in BackendOutcomes : ApiKeysCreateLegacy(id, out)
    \/ \E id \in DOMAIN inflight, out \in BackendOutcomes : ApiKeysRotateV1(id, out)
    \/ \E id \in DOMAIN inflight, out \in BackendOutcomes : CheckoutDemoV1(id, out)
    \/ \E id \in DOMAIN inflight, out \in BackendOutcomes : CheckoutDemoLegacy(id, out)
    \/ \E id \in DOMAIN inflight, out \in BackendOutcomes : WebhooksCreateV1(id, out)

\* the gateway with its production requests served one after the other: a
\* request is received while none waits for the backend
SerialNext ==
    /\ Next
    /\ Cardinality(DOMAIN inflight') <= 1

Spec == Init /\ [][SerialNext]_vars

\* the gateway started in every environment
ModeInit ==
    /\ env \in [PAYNEXUS_ENV : PaynexusEnvValues, MCP_ENV : McpEnvValues]
    /\ demoSessions = [t \in {} |-> Null]
    /\ prodState = [jwt |-> Null, apiKey |-> Null]
    /\ uuidCount = 0
    /\ reqCount = 0
    /\ inflight = [i \in {} |-> Null]
    /\ last = NoExchange
    /\ issuedTokens = <<>>
    /\ sig = SigStart(<<>>, <<>>)
    /\ LibraryIdle

ModeNext ==
    /\ SerialNext
    /\ reqCount' <= MaxModeRequests

ModeSpec == ModeInit /\ [][ModeNext]_vars

\* the verifier alone, on every payload and secret within the bounds
SigInit ==
    /\ env = [PAYNEXUS_ENV |-> Null, MCP_ENV |-> Null]
    /\ demoSessions = [t \in {} |-> Null]
    /\ prodState = [jwt |-> Null, apiKey |-> Null]
    /\ uuidCount = 0
    /\ reqCount = 0
    /\ inflight = [i \in {} |-> Null]
    /\ last = NoExchange
    /\ issuedTokens = <<>>
    /\ \E payload \in ByteStrings, secret \in ByteStrings :
          sig = SigStart(payload, secret)
    /\ LibraryIdle

SigNext ==
    \/ VerifySigned
    \/ \E i \in 1..MaxLen, b \in ByteValues : VerifyPayloadChanged(i, b)
    \/ \E i \in 1..MaxLen, b \in ByteValues : VerifySecretChanged(i, b)
    \/ \E i \in 1..(2 * DigestLen), c \in SigChars : VerifySignatureChanged(i, c)
    \/ \E suffix \in Suffixes : VerifySignatureExtended(suffix)
    \/ \E n \in 0..(2 * DigestLen - 1) : VerifySignatureCut(n)
    \/ VerifySignatureMissing

SigSpec == SigInit /\ [][SigNext]_vars

\* the gateway before its first request, started with both variables set to e
GatewayIdle(e) ==
    /\ env = [PAYNEXUS_ENV |-> e, MCP_ENV |-> e]
    /\ demoSessions = [t \in {} |-> Null]
    /\ prodState = [jwt |-> Null, apiKey |-> Null]
    /\ uuidCount = 0
    /\ reqCount = 0
    /\ inflight = [i \in {} |-> Null]
    /\ last = NoExchange
    /\ issuedTokens = <<>>
    /\ sig = SigStart(<<>>, <<>>)

\* the logger alone, constructed with every level and called with every
\* data within the bounds
LogInit ==
    /\ GatewayIdle(PRODUCTION)
    /\ client = [config |-> DefaultConfig(PRODUCTION)]
    /\ logLevel \in {LogLevels[i] : i \in 1..Len(LogLevels)}
    /\ pending = [i \in {} |-> Null]
    /\ callCount = 0
    /\ bytesCount = 0
    /\ settled = NoCall
    /\ console = <<>>

LogNext ==
    \/ \E message \in LogMessages, data \in LogData : LoggerDebug(message, data)
    \/ \E message \in LogMessages, data \in LogData : LoggerInfo(message, data)
    \/ \E message \in LogMessages, data \in LogData : LoggerWarn(message, data)
    \/ \E message \in LogMessages, data \in LogData : LoggerError(message, data)

LogSpec == LogInit /\ [][LogNext]_vars

\* the client library alone: a client of either environment, its calls
\* overlapping
ClientInit ==
    /\ GatewayIdle(PRODUCTION)
    /\ \E e \in {SANDBOX, PRODUCTION} : client = [config |-> DefaultConfig(e)]
    /\ logLevel = "info"
    /\ pending = [i \in {} |-> Null]
    /\ callCount = 0
    /\ bytesCount = 0
    /\ settled = NoCall
    /\ console = <<>>

ClientNext ==
    \/ FetchTransactions
    \/ \E id \in DOMAIN pending, r \in FetchOutcomes : FetchTransactionsSettles(id, r)
    \/ RotateApiKey
    \/ \E id \in DOMAIN pending, r \in FetchOutcomes : RotateApiKeySettles(id, r)
    \/ \E events \in HookEvents : RegisterWebhook(HOOK_URL, events)
    \/ \E id \in DOMAIN pending, r \in FetchOutcomes : RegisterWebhookSettles(id, r)

ClientSpec == ClientInit /\ [][ClientNext]_vars

\* the two ways to register a webhook in production: through the gateway's
\* route and through the library's WebhookManager
WebhookInit ==
    /\ GatewayIdle(PRODUCTION)
    /\ LibraryIdle

WebhookNext ==
    /\ \/ \E auth \in AuthHeaderValues, body \in WebhookBodies : WebhooksCreate(auth, body)
       \/ \E id \in DOMAIN inflight, out \in BackendOutcomes : WebhooksCreateV1(id, out)
       \/ \E events \in HookEvents : RegisterWebhook(HOOK_URL, events)
       \/ \E id \in DOMAIN pending, r \in FetchOutcomes : RegisterWebhookSettles(id, r)
    /\ reqCount' + callCount' <= MaxHooks

WebhookSpec == WebhookInit /\ [][WebhookNext]_vars

\* the production gateway with its key requests overlapping: issuance and
\* rotation, each awaiting the backend while the other is received or
\* answered, and the forward that fills the slot's jwt; the race is between
\* two requests, so no third one is received while two wait
RaceInit ==
    /\ GatewayIdle(PRODUCTION)
    /\ LibraryIdle

RaceNext ==
    /\ \/ \E auth \in AuthHeaderValues, body \in ForwardBodies : AuthForward(auth, body)
       \/ \E auth \in AuthHeaderValues, body \in KeyBodies : ApiKeysCreate(auth, body)
       \/ \E auth \in AuthHeaderValues, body \in RotateBodies : ApiKeysRotate(auth, body)
       \/ \E id \in DOMAIN inflight, out \in BackendOutcomes : ApiKeysCreateV1(id, out)
       \/ \E id \in DOMAIN inflight, out \in BackendOutcomes : ApiKeysCreateLegacy(id, out)
       \/ \E id \in DOMAIN inflight, out \in BackendOutcomes : ApiKeysRotateV1(id, out)
    /\ Cardinality(DOMAIN inflight') <= 2

RaceSpec == RaceInit /\ [][RaceNext]_vars

-----------------------------------------------------------------------------
(* Properties of the gateway, checked under Spec.  `last` holds an exchange *)
(* only in the state its completing step leads to, so a property of a       *)
(* response and of the state right after it is an invariant over `last`.    *)

LoginOk == last.route = "POST /auth/login" /\ last.status = 200

\* the session a bearer token resolves to is a new, empty one
ResolvesToEmptySession(token) ==
    /\ HasDemoSession(BEARER \o token)
    /\ getDemoSession(BEARER \o token).checkouts = <<>>
    /\ getDemoSession(BEARER \o token).webhooks = <<>>
    /\ getDemoSession(BEARER \o token).apiKey = Null

\* C1: in sandbox mode every POST /auth/login with a non-empty email succeeds
\* with a token that no earlier login returned, and that token resolves, right
\* after the response, to a session with no checkouts, no webhooks and a null
\* apiKey.
C1_LoginFreshToken ==
    (IS_SANDBOX /\ last.route = "POST /auth/login" /\ Truthy(Field(last.body, "email")))
        => /\ last.status = 200
           /\ Len(issuedTokens) > 0
           /\ issuedTokens[Len(issuedTokens)] = last.resp.token
           /\ \A i \in 1..(Len(issuedTokens) - 1) : issuedTokens[i] # last.resp.token
           /\ ResolvesToEmptySession(last.resp.token)

\* a second login has answered, and the session of the first one has a key
C1_Witness ==
    /\ LoginOk
    /\ Len(issuedTokens) = 2
    /\ demoSessions[issuedTokens[1]].apiKey # Null
    /\ ResolvesToEmptySession(last.resp.token)

-----------------------------------------------------------------------------
(* Production: the fallback of key issuance and checkout creation *)

CREATE == "POST /api-keys/create"
ROTATE == "POST /api-keys/rotate"
CHECKOUT == "POST /checkout/demo"
WEBHOOK == "POST /webhooks/create"

FallbackRoutes == {CREATE, CHECKOUT}
SingleCallRoutes == {ROTATE, WEBHOOK}

PrimaryPath(route) ==
    IF route = CREATE THEN "/v1/api-keys/create"
    ELSE IF route = CHECKOUT THEN "/v1/checkout/create"
    ELSE IF route = ROTATE THEN "/v1/api-keys/rotate"
    ELSE "/v1/webhooks"

LegacyPath(route) ==
    IF route = CREATE THEN "/api/keys/create" ELSE "/api/checkout/create"

\* a step that sends the response of some request
Responds == last'.id # 0 /\ last'.id # last.id

\* the response that carries an upstream failure as it came: the upstream
\* status and body where there are any, else 502 and the failure's message
SurfacedStatus(err) == IF err.hasResponse THEN err.status ELSE 502
SurfacedBody(err) ==
    IF err.hasResponse /\ err.hasData THEN err.data ELSE [error |-> err.message]

CarriesError(x, err) ==
    x.status = SurfacedStatus(err) /\ x.resp = SurfacedBody(err)

\* exchange x fell back: its primary call failed and a legacy call followed
FellBack(x) ==
    /\ x.route \in FallbackRoutes
    /\ Len(x.calls) = 2
    /\ x.calls[1].call.path = PrimaryPath(x.route)
    /\ ~x.calls[1].outcome.ok
    /\ x.calls[2].call.path = LegacyPath(x.route)

\* C2: in production mode, when the /v1/api-keys/create call of a
\* POST /api-keys/create fails and its /api/keys/create call succeeds with a
\* body {key: k}, the response is that legacy body with status 200 and the
\* credential slot's apiKey is k right after.
C2_LegacyKeyStored ==
    (/\ ~IS_SANDBOX
     /\ last.route = CREATE
     /\ FellBack(last)
     /\ last.calls[2].outcome.ok
     /\ Truthy(Field(last.calls[2].outcome.data, "key")))
        => /\ last.status = 200
           /\ last.resp = last.calls[2].outcome.data
           /\ prodState.apiKey = last.calls[2].outcome.data.key

\* the primary call was refused with a 401, the legacy one issued a key, and
\* the slot held another key before
C2_Witness ==
    /\ ~IS_SANDBOX
    /\ last.route = CREATE
    /\ FellBack(last)
    /\ last.calls[1].outcome.err.status = 401
    /\ last.calls[2].outcome.ok
    /\ last.resp = [key |-> K2]
    /\ prodState.apiKey = K2
    /\ last.id = 2

\* the backend calls of a request so far, the pending one last
CallsSent(r) == [i \in 1..Len(r.calls) |-> r.calls[i].call] \o <<r.pending>>
CallsMade(x) == [i \in 1..Len(x.calls) |-> x.calls[i].call]

\* the order of calls the fallback allows: the primary route first; the
\* legacy route second only, without a bearer, and nothing after it
FallbackOrder(route, sent, answered) ==
    /\ Len(sent) \in 1..2
    /\ sent[1].path = PrimaryPath(route)
    /\ Len(sent) = 2 =>
          /\ sent[2].path = LegacyPath(route)
          /\ sent[2].Authorization = Null
          /\ ~answered[1].outcome.ok
    /\ (Len(answered) > 0 /\ answered[1].outcome.ok) => Len(sent) = 1

\* C3: in production mode, every POST /api-keys/create and POST /checkout/demo
\* calls the primary route first; the legacy route is called only as the
\* second call, after the primary call of the same request failed, and with no
\* Authorization header; a request whose primary call succeeded has made
\* exactly one call, and no request makes more than two.
C3_FallbackOrder ==
    ~IS_SANDBOX =>
        /\ \A id \in DOMAIN inflight :
              inflight[id].route \in FallbackRoutes =>
                  FallbackOrder(inflight[id].route, CallsSent(inflight[id]),
                                inflight[id].calls)
        /\ last.route \in FallbackRoutes =>
              /\ FallbackOrder(last.route, CallsMade(last), last.calls)
              /\ ~last.calls[Len(last.calls)].outcome.ok => Len(last.calls) = 2

\* a checkout whose caller sent a bearer fell back, and its legacy call went
\* out without one
C3_Witness ==
    /\ ~IS_SANDBOX
    /\ last.route = CHECKOUT
    /\ FellBack(last)
    /\ last.calls[1].call.Authorization = BEARER \o CALLER_TOKEN
    /\ last.calls[2].call.Authorization = Null
    /\ last.calls[2].outcome.ok

\* a step of request id with the fallback: it starts, or a call of it fails
StartsFallback(id) ==
    /\ id \notin DOMAIN inflight
    /\ id \in DOMAIN inflight'
    /\ inflight'[id].route \in FallbackRoutes

PrimaryFails(id) ==
    /\ id \in DOMAIN inflight
    /\ id \in DOMAIN inflight'
    /\ inflight[id].route \in FallbackRoutes
    /\ inflight[id].calls = <<>>
    /\ Len(inflight'[id].calls) = 1
    /\ ~inflight'[id].calls[1].outcome.ok

BothFail == Responds /\ FellBack(last') /\ ~last'.calls[2].outcome.ok

\* C4: in production mode, when both calls of a POST /api-keys/create or
\* POST /checkout/demo fail, the response carries the legacy call's failure as
\* it came (the upstream status and body; 502 and the failure's message where
\* the upstream gave none) and not the primary call's, and no step of such a
\* request (its start, the failure of its primary call, the failure of its
\* legacy call) changes the credential slot.
C4_LegacyErrorSurfaced ==
    [][~IS_SANDBOX =>
          /\ BothFail =>
                /\ CarriesError(last', last'.calls[2].outcome.err)
                /\ last'.calls[1].outcome.err # last'.calls[2].outcome.err
                      => ~CarriesError(last', last'.calls[1].outcome.err)
                /\ prodState' = prodState
          /\ \A id \in 1..(reqCount + 1) :
                (StartsFallback(id) \/ PrimaryFails(id)) => prodState' = prodState
      ]_vars

\* the slot holds a key, the primary call failed in transit, and the legacy
\* call was refused with a 401
C4_Witness ==
    /\ ~IS_SANDBOX
    /\ FellBack(last)
    /\ ~last.calls[1].outcome.ok
    /\ ~last.calls[1].outcome.err.hasResponse
    /\ ~last.calls[2].outcome.ok
    /\ last.status = 401
    /\ last.resp = [error |-> "invalid token"]
    /\ prodState.apiKey # Null

\* C5: in production mode, a POST /api-keys/rotate or POST /webhooks/create
\* waits for its one call to the primary route and has made exactly one call
\* when it responds; when that call failed, the response carries the upstream
\* status and body (502 and the failure's message where the upstream gave
\* none) and the step leaves the credential slot unchanged.
C5_SingleCall ==
    [][~IS_SANDBOX =>
          /\ \A id \in DOMAIN inflight' :
                inflight'[id].route \in SingleCallRoutes =>
                    /\ inflight'[id].calls = <<>>
                    /\ inflight'[id].pending.path = PrimaryPath(inflight'[id].route)
          /\ (Responds /\ last'.route \in SingleCallRoutes) =>
                /\ Len(last'.calls) = 1
                /\ last'.calls[1].call.path = PrimaryPath(last'.route)
                /\ ~last'.calls[1].outcome.ok =>
                      /\ CarriesError(last', last'.calls[1].outcome.err)
                      /\ prodState' = prodState
      ]_vars

\* a rotation was refused upstream with a 401 while the slot held a key
C5_Witness ==
    /\ ~IS_SANDBOX
    /\ last.route = ROTATE
    /\ Len(last.calls) = 1
    /\ ~last.calls[1].outcome.ok
    /\ last.status = 401
    /\ last.resp = [error |-> "invalid token"]
    /\ prodState.apiKey # Null

-----------------------------------------------------------------------------
(* Sandbox: rotation, and the routes of the other mode *)

\* a step that answers a sandbox rotation of a session's key with a 200
Rotates ==
    IS_SANDBOX /\ Responds /\ last'.route = ROTATE /\ last'.status = 200

RotatedToken == extractBearer(last'.auth)

\* C6 as stated: after a sandbox POST /api-keys/rotate of a session that had a
\* key, the session's apiKey differs from the prior one and the old_key
\* returned is a strict prefix of the prior key.
C6_OldKeyIsPrefix ==
    [][(Rotates /\ demoSessions[RotatedToken].apiKey # Null) =>
          LET prior == demoSessions[RotatedToken].apiKey
          IN  /\ demoSessions'[RotatedToken].apiKey # prior
              /\ StartsWith(prior, last'.resp.old_key)
              /\ Len(last'.resp.old_key) < Len(prior)
      ]_vars

\* C6: after a sandbox POST /api-keys/rotate the session's apiKey differs from
\* its value before; the old_key returned is null when the session had no
\* key, and else the first 15 characters of the prior key, a strict prefix of
\* it, followed by "...", which is never the prior key itself.
C6_OldKeyPreview ==
    [][Rotates =>
          LET prior == demoSessions[RotatedToken].apiKey
              shown == last'.resp.old_key
          IN  /\ demoSessions'[RotatedToken].apiKey # prior
              /\ demoSessions'[RotatedToken].apiKey = last'.resp.key
              /\ prior = Null => shown = Null
              /\ prior # Null =>
                    /\ shown = SliceTo(prior, 15) \o Ellipsis
                    /\ StartsWith(prior, SliceTo(prior, 15))
                    /\ Len(SliceTo(prior, 15)) < Len(prior)
                    /\ shown # prior
      ]_vars

\* a session's key was rotated twice: the key replaced last is itself one
\* that a rotation issued
C6_Witness ==
    /\ IS_SANDBOX
    /\ last.route = ROTATE
    /\ last.status = 200
    /\ last.resp.old_key # Null
    /\ last.resp.old_key = Preview(DemoKey(uuidCount - 1))
    /\ getDemoSession(last.auth).apiKey = DemoKey(uuidCount)

SandboxOnlyRoutes == {"POST /auth/login", "GET /session", "GET /sessions"}

\* C7: in production mode, POST /auth/login, GET /session and GET /sessions
\* answer 404 and the step changes nothing of the gateway but its request
\* log; in sandbox mode, POST /auth/forward answers 200 or 400 with its
\* sandbox compatibility message, never a 5xx.
C7_OtherModeRoutes ==
    [][Responds =>
          /\ (~IS_SANDBOX /\ last'.route \in SandboxOnlyRoutes) =>
                /\ last'.status = 404
                /\ UNCHANGED <<env, demoSessions, prodState, uuidCount,
                               inflight, issuedTokens>>
          /\ (IS_SANDBOX /\ last'.route = "POST /auth/forward") =>
                /\ last'.status < 500
                /\ \/ /\ last'.status = 200
                      /\ last'.resp.message =
                            "JWT stored in legacy state. For the full demo flow, use POST /auth/login."
                   \/ /\ last'.status = 400
                      /\ last'.resp.error =
                            "Provide jwt in body. In sandbox mode, prefer POST /auth/login instead."
      ]_vars

\* production: GET /session was asked with a bearer after a JWT was stored
C7_Witness ==
    /\ ~IS_SANDBOX
    /\ last.route = "GET /session"
    /\ last.auth = BEARER \o CALLER_TOKEN
    /\ last.status = 404
    /\ prodState.jwt # Null

GatedRoutes == {CREATE, ROTATE, CHECKOUT, WEBHOOK, "GET /session"}

\* C8: in sandbox mode, a request to POST /api-keys/create,
\* POST /api-keys/rotate, POST /checkout/demo, POST /webhooks/create or
\* GET /session whose Authorization header carries no bearer token, or one that
\* is no key of the session registry, is answered 401 with the hint to call
\* POST /auth/login first, and the step leaves the registry as it was.
C8_SessionGate ==
    [][(/\ IS_SANDBOX
        /\ Responds
        /\ last'.route \in GatedRoutes
        /\ extractBearer(last'.auth) \notin DOMAIN demoSessions) =>
          /\ last'.status = 401
          /\ "hint" \in DOMAIN last'.resp
          /\ last'.resp.hint =
                "Call POST /auth/login first, then pass the token as Authorization: Bearer <token>."
          /\ demoSessions' = demoSessions
      ]_vars

\* a rotation asked with a token that is no session's, while the registry
\* holds a session with a key
C8_Witness ==
    /\ IS_SANDBOX
    /\ last.route = ROTATE
    /\ last.auth = BEARER \o CALLER_TOKEN
    /\ last.status = 401
    /\ \E t \in DOMAIN demoSessions : demoSessions[t].apiKey # Null

-----------------------------------------------------------------------------
(* Properties of verifySignature, checked under SigSpec *)

Called == sig.op # "idle"

AlteredOps == {"payload changed", "signature changed", "secret changed"}

\* C9 as stated: the signature of a payload verifies under the secret it was
\* made with, and the call answers false once a single byte of the payload,
\* of the signature string or of the secret was changed.
C9_AnyChangeRejected ==
    /\ sig.op = "signed" => sig.result = "true"
    /\ sig.op \in AlteredOps => sig.result = "false"

\* C9: the signature of a payload verifies under the secret it was made with;
\* the call answers false once a single byte of the payload or of the secret
\* was changed; once a single character of the signature string was changed
\* it answers false unless the new character is the same hex digit in the
\* other case, and then it answers true.
C9_RoundTrip ==
    /\ sig.op = "signed" => sig.result = "true"
    /\ sig.op \in {"payload changed", "secret changed"} => sig.result = "false"
    /\ sig.op = "signature changed" =>
          /\ sig.signature # sig.signature0
          /\ sig.result = "true" <=> ToLowerCase(sig.signature) = sig.signature0

\* a byte of a secret was changed to a zero byte, the byte HMAC pads keys with
C9_Witness ==
    /\ sig.op = "secret changed"
    /\ Len(sig.payload0) > 0
    /\ \E i \in 1..Len(sig.secret0) : sig.secret0[i] # 0 /\ sig.secret[i] = 0
    /\ sig.signature = Sign(sig.payload0, sig.secret0)
    /\ sig.result = "false"

\* every character a hex digit, and an even number of them
WellFormedHex(s) ==
    /\ s # Null
    /\ Len(s) % 2 = 0
    /\ \A i \in 1..Len(s) : Unhex(s[i]) >= 0

\* C10: for every payload and secret, a call whose signature string is not of
\* the length of the expected hex signature, or is not well-formed hex,
\* answers false.
C10_MalformedRejected ==
    (/\ Called
     /\ \/ sig.signature = Null
        \/ Len(sig.signature) # 2 * DigestLen
        \/ ~WellFormedHex(sig.signature))
        => sig.result = "false"

-----------------------------------------------------------------------------
(* Mode resolution, checked under ModeSpec *)

\* the mode the two flags stand for
FlagsSaySandbox ==
    \/ env.PAYNEXUS_ENV = SANDBOX
    \/ env.MCP_ENV = DEMO
    \/ env.MCP_ENV = Null

\* the mode a response shows: the mode field of GET /health and of a stored
\* POST /auth/forward, the 404 of the sandbox-only routes, the 401 and the
\* sandbox answers of the others
ShowsSandbox(x) ==
    IF x.route \in {"GET /health", "POST /auth/forward"} /\ x.status = 200
    THEN x.resp.mode = "sandbox"
    ELSE IF x.route \in {"POST /auth/login", "GET /session", "GET /sessions"}
    THEN x.status # 404
    ELSE IF x.route = "POST /auth/forward"
    THEN x.resp.error = "Provide jwt in body. In sandbox mode, prefer POST /auth/login instead."
    ELSE x.calls = <<>>

\* C11: the gateway behaves as sandbox if and only if PAYNEXUS_ENV is
\* 'sandbox' or MCP_ENV is 'demo' or unset; no step changes the environment
\* read at startup, every response shows the mode the flags stand for, and a
\* request waits for the backend in production mode only.
C11_ModeResolved ==
    [][/\ env' = env
       /\ Responds => (ShowsSandbox(last') <=> FlagsSaySandbox)
       /\ inflight' # inflight => ~FlagsSaySandbox
      ]_vars

\* PAYNEXUS_ENV = sandbox alone forces sandbox: a login succeeded and the
\* health route reports sandbox although MCP_ENV says production
C11_Witness ==
    /\ env = [PAYNEXUS_ENV |-> SANDBOX, MCP_ENV |-> PRODUCTION]
    /\ last.route = "GET /health"
    /\ last.resp.mode = "sandbox"
    /\ Len(issuedTokens) = 1

-----------------------------------------------------------------------------
(* Sandbox: checkout records *)

\* out is string s with its upper-case letters turned to lower case
IsLowerCaseOf(out, s) ==
    /\ Len(out) = Len(s)
    /\ \A i \in 1..Len(s) :
          IF \E k \in 1..26 : UpperLetters[k] = s[i]
          THEN \E k \in 1..26 : UpperLetters[k] = s[i] /\ out[i] = LowerLetters[k]
          ELSE out[i] = s[i]

\* cs_demo_ followed by the 32 hex digits of a UUID
IsCheckoutId(id) ==
    /\ Len(id) = Len(CS_DEMO) + 32
    /\ SubSeq(id, 1, Len(CS_DEMO)) = <<"c","s","_","d","e","m","o","_">>
    /\ \A i \in (Len(CS_DEMO) + 1)..Len(id) : \E d \in 1..16 : HexDigits[d] = id[i]

CheckoutOk ==
    IS_SANDBOX /\ Responds /\ last'.route = CHECKOUT /\ last'.status = 200

\* C12: in sandbox mode a session starts with no checkouts; a successful
\* POST /checkout/demo with bearer T appends one record to T's checkouts and
\* no other step changes them, so that after n of them the list holds the n
\* records in creation order; the response and the record appended carry the
\* requested amount (4900 when none), the requested currency in lower case
\* ('usd' when none), status 'pending' and the same id cs_demo_<32 hex>; and
\* a successful GET /session with bearer T shows exactly T's list.
C12_CheckoutsRecorded ==
    [][IS_SANDBOX =>
          /\ \A t \in DOMAIN demoSessions' \ DOMAIN demoSessions :
                demoSessions'[t].checkouts = <<>>
          /\ \A t \in DOMAIN demoSessions :
                /\ t \in DOMAIN demoSessions'
                /\ ~(CheckoutOk /\ extractBearer(last'.auth) = t)
                      => demoSessions'[t].checkouts = demoSessions[t].checkouts
          /\ CheckoutOk =>
                LET t      == extractBearer(last'.auth)
                    before == demoSessions[t].checkouts
                    after  == demoSessions'[t].checkouts
                    r      == last'.resp
                IN  /\ Len(after) = Len(before) + 1
                    /\ SubSeq(after, 1, Len(before)) = before
                    /\ after[Len(after)].id = r.id
                    /\ IsCheckoutId(r.id)
                    /\ \A i \in 1..Len(before) : before[i].id # r.id
                    /\ r.amount = FieldOr(last'.body, "amount", Num(4900))
                    /\ after[Len(after)].amount = r.amount
                    /\ IsLowerCaseOf(r.currency, FieldOr(last'.body, "currency", <<"u","s","d">>))
                    /\ after[Len(after)].currency = r.currency
                    /\ r.status = "pending"
                    /\ after[Len(after)].status = "pending"
          /\ (Responds /\ last'.route = "GET /session" /\ last'.status = 200) =>
                last'.resp.checkouts = demoSessions[extractBearer(last'.auth)].checkouts
      ]_vars

\* GET /session after two checkouts of a session: the default one, then one
\* of 2500 EUR
C12_Witness ==
    /\ IS_SANDBOX
    /\ last.route = "GET /session"
    /\ last.status = 200
    /\ Len(last.resp.checkouts) = 2
    /\ last.resp.checkouts[1].amount = Num(4900)
    /\ last.resp.checkouts[1].currency = <<"u","s","d">>
    /\ last.resp.checkouts[2].amount = Num(2500)
    /\ last.resp.checkouts[2].currency = <<"e","u","r">>

-----------------------------------------------------------------------------
(* Production: the credential slot after a key was issued *)

\* the answered call that ended exchange x
FinalCall(x) == x.calls[Len(x.calls)]

\* the key a successful call returned: raw_key of the v1 routes, key of the
\* legacy route; Null when the body has none
KeyReturned(c) ==
    IF c.call.path = "/api/keys/create" THEN Field(c.outcome.data, "key")
    ELSE Field(c.outcome.data, "raw_key")

KeyIssued ==
    /\ ~IS_SANDBOX
    /\ last.route \in {CREATE, ROTATE}
    /\ FinalCall(last).outcome.ok

\* C13: in production mode, right after a POST /api-keys/create or
\* POST /api-keys/rotate whose last backend call succeeded, the response is
\* that call's body with status 200, and when the body carries a non-empty
\* key (raw_key from /v1/api-keys/create and /v1/api-keys/rotate, key from
\* /api/keys/create) the credential slot's apiKey is that key.
C13_SlotHoldsIssuedKey ==
    KeyIssued =>
        /\ last.status = 200
        /\ last.resp = FinalCall(last).outcome.data
        /\ Truthy(KeyReturned(FinalCall(last)))
              => prodState.apiKey = KeyReturned(FinalCall(last))

\* a rotation authorised by the key a legacy issuance had stored returned a
\* new key, which replaced it
C13_Witness ==
    /\ KeyIssued
    /\ last.route = ROTATE
    /\ last.id = 2
    /\ FinalCall(last).call.Authorization = BEARER \o K2
    /\ KeyReturned(FinalCall(last)) = K1
    /\ prodState.apiKey = K1

-----------------------------------------------------------------------------
(* Failure responses *)

\* the latest step ended a request in failure: anything but a 200
Failed == last.id # 0 /\ last.status # 200

\* C14: every request that fails, on any route and in either mode, ends with
\* a response whose body is a JSON object with an `error` field.
C14_FailuresCarryError ==
    Failed =>
        /\ last.status # 0
        /\ "error" \in DOMAIN last.resp


\* the upstream answered with a body: data is neither null nor ''
HasBody(err) == err.hasResponse /\ err.hasData /\ err.data # Text("")

FailedUpstream ==
    /\ ~IS_SANDBOX
    /\ last.id # 0
    /\ last.calls # <<>>
    /\ ~FinalCall(last).outcome.ok

\* C15: when the last backend call of a production request failed, the
\* response status is the upstream's status if the backend answered and 502
\* if the transport failed, and the body is the upstream's body if it sent
\* one and {error: message} otherwise.
C15_UpstreamErrorMapped ==
    FailedUpstream =>
        LET err == FinalCall(last).outcome.err
        IN  /\ last.status = IF err.hasResponse THEN err.status ELSE 502
            /\ last.resp = IF HasBody(err) THEN err.data ELSE [error |-> err.message]

-----------------------------------------------------------------------------
(* Sandbox: requests that race for one session.  A sandbox handler runs     *)
(* from its first statement to its response without awaiting anything, so   *)
(* two racing requests are two steps, one right after the other.            *)

MutatingRoutes == {CREATE, ROTATE, CHECKOUT, WEBHOOK}

\* exchange x changed the session of its bearer
Mutated(x) == x.route \in MutatingRoutes /\ x.status = 200

\* this step and the one before it both changed the session of one bearer
Races ==
    /\ IS_SANDBOX
    /\ Responds
    /\ Mutated(last)
    /\ Mutated(last')
    /\ extractBearer(last.auth) = extractBearer(last'.auth)

RacedToken == extractBearer(last'.auth)

\* the second of two racing requests keeps what the first one wrote and adds
\* its own update: a new key in place of the first one's, or one more record
\* after the first one's
NoUpdateLost ==
    LET before == demoSessions[RacedToken]
        after  == demoSessions'[RacedToken]
    IN  /\ last.route \in {CREATE, ROTATE} => before.apiKey = last.resp.key
        /\ last.route = CHECKOUT =>
              before.checkouts[Len(before.checkouts)].id = last.resp.id
        /\ last.route = WEBHOOK =>
              before.webhooks[Len(before.webhooks)].id = last.resp.id
        /\ IF last'.route \in {CREATE, ROTATE}
           THEN /\ after.apiKey = last'.resp.key
                /\ after.apiKey # before.apiKey
                /\ after.checkouts = before.checkouts
                /\ after.webhooks = before.webhooks
           ELSE IF last'.route = CHECKOUT
           THEN /\ Len(after.checkouts) = Len(before.checkouts) + 1
                /\ SubSeq(after.checkouts, 1, Len(before.checkouts)) = before.checkouts
                /\ after.checkouts[Len(after.checkouts)].id = last'.resp.id
                /\ after.apiKey = before.apiKey
                /\ after.webhooks = before.webhooks
           ELSE /\ Len(after.webhooks) = Len(before.webhooks) + 1
                /\ SubSeq(after.webhooks, 1, Len(before.webhooks)) = before.webhooks
                /\ after.webhooks[Len(after.webhooks)].id = last'.resp.id
                /\ after.apiKey = before.apiKey
                /\ after.checkouts = before.checkouts
        /\ \A t \in DOMAIN demoSessions \ {RacedToken} :
              demoSessions'[t] = demoSessions[t]

\* C16 as stated: of two racing requests on one sandbox session no update is
\* lost, and the old_key of the rotation that ran last is a prefix of the key
\* the other rotation returned.
C16_OldKeyPrefixOfOther ==
    [][Races =>
          /\ NoUpdateLost
          /\ (last.route = ROTATE /\ last'.route = ROTATE) =>
                StartsWith(last.resp.key, last'.resp.old_key)
      ]_vars

\* C16: of two racing requests on one sandbox session no update is lost:
\* after two rotations the session's apiKey is the key the rotation that ran
\* last returned, and that rotation's old_key is the first 15 characters of
\* the key the other returned followed by "..."; after two checkouts (or
\* webhook registrations) both records are in the session, in the order the
\* requests ran; a request leaves the fields it does not write, and every
\* other session, as they were.
C16_RacesAtomic ==
    [][Races =>
          /\ NoUpdateLost
          /\ (last.route = ROTATE /\ last'.route = ROTATE) =>
                /\ last'.resp.old_key = SliceTo(last.resp.key, 15) \o Ellipsis
                /\ StartsWith(last.resp.key, SliceTo(last.resp.key, 15))
      ]_vars

\* two checkouts of one session ran one right after the other, and both
\* records are in the session
C16_Witness ==
    /\ IS_SANDBOX
    /\ last.route = CHECKOUT
    /\ last.status = 200
    /\ Len(getDemoSession(last.auth).checkouts) = 2
    /\ getDemoSession(last.auth).checkouts[1].id =
          CS_DEMO \o StripDashes(randomUUID(uuidCount - 3))
    /\ getDemoSession(last.auth).checkouts[2].id = last.resp.id

-----------------------------------------------------------------------------
(* Production: waiting for the backend *)

\* C17: every backend call a production request waits for carries a timeout,
\* so that the wait ends with a response although the backend never answers.
C17_CallsTimeOut ==
    \A id \in DOMAIN inflight : inflight[id].pending.timeout # Null

-----------------------------------------------------------------------------
(* POST /auth/forward *)

Forwards == Responds /\ last'.route = "POST /auth/forward"

\* the token a forward request carries: the body's jwt when it holds one, else
\* the bearer token of the header, Null when neither holds one
TokenSent(x) ==
    IF Truthy(Field(x.body, "jwt")) THEN x.body.jwt
    ELSE IF Truthy(extractBearer(x.auth)) THEN extractBearer(x.auth)
    ELSE Null

\* C18: a POST /auth/forward that carries a token, in the body's jwt field or
\* else in the bearer header, answers 200, stores exactly that token as the
\* credential slot's jwt and leaves apiKey as it was; one that carries none
\* answers 400 and leaves the slot as it was.
C18_ForwardStoresToken ==
    [][Forwards =>
          IF TokenSent(last') # Null
          THEN /\ last'.status = 200
               /\ prodState'.jwt = TokenSent(last')
               /\ prodState'.apiKey = prodState.apiKey
          ELSE /\ last'.status = 400
               /\ prodState' = prodState
      ]_vars

-----------------------------------------------------------------------------
(* Sandbox: what a login needs *)

LogsIn == IS_SANDBOX /\ Responds /\ last'.route = "POST /auth/login"

\* the request names an identity: an email that is there and not empty
NamesIdentity(x) == "email" \in DOMAIN x.body /\ x.body.email # <<>>

\* C19: in sandbox mode a POST /auth/login with an absent or empty email
\* answers 400 and leaves the registry as it was; with any non-empty email it
\* answers 200 and adds one session for that email, whether the request has a
\* password or not.
C19_LoginNeedsEmailOnly ==
    [][LogsIn =>
          IF NamesIdentity(last')
          THEN /\ last'.status = 200
               /\ DOMAIN demoSessions' = DOMAIN demoSessions \cup {last'.resp.token}
               /\ last'.resp.token \notin DOMAIN demoSessions
               /\ demoSessions'[last'.resp.token].email = last'.body.email
               /\ \A t \in DOMAIN demoSessions : demoSessions'[t] = demoSessions[t]
          ELSE /\ last'.status = 400
               /\ "error" \in DOMAIN last'.resp
               /\ demoSessions' = demoSessions
      ]_vars

\* a login without a password succeeded after one with a password had
C19_Witness ==
    /\ IS_SANDBOX
    /\ last.route = "POST /auth/login"
    /\ last.status = 200
    /\ "password" \notin DOMAIN last.body
    /\ Cardinality(DOMAIN demoSessions) = 2
    /\ last.id = 3

-----------------------------------------------------------------------------
(* Sandbox: what responses show of keys and tokens *)

\* string needle occurs in string hay
Contains(hay, needle) ==
    \E i \in 1..(Len(hay) - Len(needle) + 1) :
        SubSeq(hay, i, i + Len(needle) - 1) = needle

\* every key a create or rotate has issued so far is among these
KeysIssued == {PK_DEMO \o StripDashes(randomUUID(n)) : n \in 1..uuidCount}

\* the strings a sandbox response shows, the key field of a create or rotate
\* response aside
StringsShown(x) ==
    IF x.status # 200 THEN {}
    ELSE IF x.route = "POST /auth/login" THEN {x.resp.token, x.resp.email}
    ELSE IF x.route = CREATE THEN {x.resp.session}
    ELSE IF x.route = ROTATE THEN {x.resp.old_key}
    ELSE IF x.route = CHECKOUT
    THEN {x.resp.id, x.resp.currency, x.resp.merchant, x.resp.api_key,
          x.resp.payment_url}
    ELSE IF x.route = WEBHOOK THEN {x.resp.id}
    ELSE IF x.route = "GET /session"
    THEN {x.resp.email, x.resp.apiKey}
            \cup {x.resp.checkouts[i].id : i \in 1..Len(x.resp.checkouts)}
            \cup {x.resp.webhooks[i].id : i \in 1..Len(x.resp.webhooks)}
    ELSE IF x.route = "GET /sessions"
    THEN {x.resp.sessions[i].email : i \in 1..Len(x.resp.sessions)}
    ELSE {}

\* a key shown in part: its first 15 characters and "...", fewer than the key
IsPreviewOf(shown, key) ==
    /\ shown = SubSeq(key, 1, 15) \o <<".", ".", ".">>
    /\ Len(shown) < Len(key)

\* C20: in sandbox mode no response shows a full API key, of any session and
\* of any time, but for the key field of the create or rotate response that
\* issued it; GET /session and the checkout response show of the session's
\* key its 15-character preview or null; the entries of GET /sessions have no
\* token and no key field and show no token.
C20_KeysNotEchoed ==
    (IS_SANDBOX /\ last.id # 0) =>
        /\ \A shown \in StringsShown(last), key \in KeysIssued :
              ~Contains(shown, key)
        /\ (last.route \in {CREATE, ROTATE} /\ last.status = 200) =>
              /\ last.resp.key = getDemoSession(last.auth).apiKey
              /\ last.resp.key = PK_DEMO \o StripDashes(randomUUID(uuidCount))
        /\ (last.route = "GET /session" /\ last.status = 200) =>
              IF getDemoSession(last.auth).apiKey = Null
              THEN last.resp.apiKey = Null
              ELSE IsPreviewOf(last.resp.apiKey, getDemoSession(last.auth).apiKey)
        /\ (last.route = CHECKOUT /\ last.status = 200) =>
              IF getDemoSession(last.auth).apiKey = Null
              THEN last.resp.api_key = Null
              ELSE IsPreviewOf(last.resp.api_key, getDemoSession(last.auth).apiKey)
        /\ last.route = "GET /sessions" =>
              \A i \in 1..Len(last.resp.sessions) :
                  /\ DOMAIN last.resp.sessions[i] =
                        {"email", "hasApiKey", "checkouts", "webhooks", "createdAt"}
                  /\ \A t \in DOMAIN demoSessions :
                        ~Contains(last.resp.sessions[i].email, t)

\* GET /sessions lists two sessions, one of them with a key
C20_Witness ==
    /\ IS_SANDBOX
    /\ last.route = "GET /sessions"
    /\ Len(last.resp.sessions) = 2
    /\ \E i \in 1..2 : last.resp.sessions[i].hasApiKey
    /\ \E i \in 1..2 : ~last.resp.sessions[i].hasApiKey

-----------------------------------------------------------------------------
(* The logger, checked under LogSpec *)

\* a string that starts with pnx_ is v or sits in v, at whatever depth
RECURSIVE HasSecret(_)
HasSecret(v) ==
    \/ v.kind = "string" /\ StartsWith(v.str, PNX)
    \/ \E k \in DOMAIN v.fields : HasSecret(v.fields[k])

\* C23: no entry the logger emits has in its data, at any depth, a string
\* that starts with pnx_.
C23_SecretsRedacted ==
    \A i \in 1..Len(console) : ~HasSecret(console[i].data)

-----------------------------------------------------------------------------
(* The client library, checked under ClientSpec *)

\* this step settles a call of op
SettlesCall(op) ==
    /\ settled'.id \in DOMAIN pending
    /\ settled'.op = op

\* the calls this step starts
Started == DOMAIN pending' \ DOMAIN pending

\* fetch gave a 2xx response whose body is JSON and neither null nor absent
Succeeded(r) ==
    /\ ~r.failed
    /\ r.status \in 200..299
    /\ r.json.kind \notin {"unparseable", "null", "undefined"}

\* C22: a rotateApiKey that succeeds leaves as the client's apiKey the
\* newKey of the backend's response and resolves with it; one that fails
\* rejects with the error and leaves the client as it was; nothing else
\* changes the client, and every request sent carries as its bearer the
\* apiKey the client has when the request is sent, so, after a rotation, the
\* new key.
C22_ClientKeyRotated ==
    [][/\ SettlesCall("rotateApiKey") =>
            IF Succeeded(settled'.response)
            THEN /\ settled'.state = "fulfilled"
                 /\ settled'.value = JField(settled'.response.json, "newKey")
                 /\ client'.config.apiKey = settled'.value
            ELSE /\ settled'.state = "rejected"
                 /\ settled'.reason # <<>>
                 /\ client' = client
       /\ ~SettlesCall("rotateApiKey") => client' = client
       /\ \A id \in Started :
            /\ client' = client
            /\ client.config.apiKey.kind = "string" =>
                  pending'[id].request.Authorization =
                      BEARER \o client.config.apiKey.str
      ]_vars

\* a rotation gave the key pnx_live_2, and a request sent after it is on its
\* way with that key
C22_Witness ==
    /\ client.config.apiKey = JString(PNX_KEY2)
    /\ \E id \in DOMAIN pending :
          pending[id].request.Authorization = BEARER \o PNX_KEY2

-----------------------------------------------------------------------------
(* Webhook registration in production, checked under WebhookSpec *)

\* C21 as the specification has it: whichever way a webhook is registered in
\* production, the payload on its way to the backend is {url, events,
\* secret}.
C21_SecretSent ==
    /\ \A id \in DOMAIN pending :
          DOMAIN pending[id].request.body.fields = {"url", "events", "secret"}
    /\ \A id \in DOMAIN inflight :
          DOMAIN inflight[id].pending.body = {"url", "events", "secret"}

IsSecret(s) ==
    /\ Len(s) = 64
    /\ \A i \in 1..64 : IndexIn(s[i], HexDigits) > 0

\* C21: registerWebhook of the library draws a secret no earlier call drew,
\* sends {url, events, secret} in one request, resolves on success with the
\* webhookId of the backend's response and the secret it sent, and on
\* failure rejects with the error, no secret returned.  The gateway's route
\* draws no secret: in production it sends {url, events}, the defaults
\* filled in, in one call, and answers with the backend's body as it is.
C21_WebhookRegistered ==
    [][/\ \A id \in Started :
            LET call == pending'[id]
            IN  /\ Started = {id}
                /\ call.request.url = BASE_URL \o WEBHOOKS_REGISTER
                /\ call.request.method = "POST"
                /\ IsSecret(call.secret)
                /\ \A n \in 1..bytesCount : generateSecret(n) # call.secret
                /\ \A other \in DOMAIN pending :
                      pending[other].secret # call.secret
                /\ DOMAIN call.request.body.fields = {"url", "events", "secret"}
                /\ call.request.body.fields.url = HOOK_URL
                /\ call.request.body.fields.events \in HookEvents
                /\ call.request.body.fields.secret = JString(call.secret)
       /\ SettlesCall("registerWebhook") =>
            /\ Started = {}
            /\ IF Succeeded(settled'.response)
               THEN /\ settled'.state = "fulfilled"
                    /\ settled'.value =
                          JObject([webhookId |->
                                      JField(settled'.response.json, "webhookId"),
                                   secret |->
                                      settled'.request.body.fields.secret])
               ELSE /\ settled'.state = "rejected"
                    /\ settled'.reason # <<>>
                    /\ settled'.value = JUndefined
       /\ \A id \in DOMAIN inflight' \ DOMAIN inflight :
            LET call == inflight'[id].pending
                body == inflight'[id].body
            IN  /\ call.path = "/v1/webhooks"
                /\ DOMAIN call.body = {"url", "events"}
                /\ call.body.url = FieldOr(body, "url", "https://webhook.site/demo")
                /\ call.body.events = FieldOr(body, "events", DefaultEvents)
                /\ UNCHANGED bytesCount
       /\ Responds =>
            /\ Len(last'.calls) = 1
            /\ UNCHANGED bytesCount
            /\ IF last'.calls[1].outcome.ok
               THEN /\ last'.status = 200
                    /\ last'.resp = last'.calls[1].outcome.data
               ELSE last'.status # 200
      ]_vars

\* a registration through the library has resolved with the backend's id and
\* the secret drawn for it
C21_Witness ==
    /\ settled.op = "registerWebhook"
    /\ settled.state = "fulfilled"
    /\ settled.value.fields.webhookId = JString(WH_ID)
    /\ settled.value.fields.secret = JString(generateSecret(settled.id))
    /\ settled.request.body.fields.secret = settled.value.fields.secret

-----------------------------------------------------------------------------
(* Sandbox: the keys of a session *)

\* a step that answers a sandbox create or rotate with a 200
IssuesKey ==
    /\ IS_SANDBOX
    /\ Responds
    /\ last'.route \in {CREATE, ROTATE}
    /\ last'.status = 200

\* pk_demo_ and 32 hex digits
IsDemoKey(key) ==
    /\ Len(key) = 40
    /\ SubSeq(key, 1, 8) = PK_DEMO
    /\ \A i \in 9..40 : IndexIn(key[i], HexDigits) > 0

\* C24: in sandbox mode a create or rotate that succeeds leaves as the
\* session's apiKey the key of its response, a key of the form pk_demo_ and
\* 32 hex digits that no session holds and that was made from no UUID drawn
\* before; no other step changes the apiKey of a session.  So a session's
\* apiKey is the key of the latest create or rotate response on it.
C24_KeyIsLatestIssued ==
    [][IS_SANDBOX =>
         IF IssuesKey
         THEN LET t   == extractBearer(last'.auth)
                  key == last'.resp.key
              IN  /\ t \in DOMAIN demoSessions
                  /\ demoSessions'[t].apiKey = key
                  /\ IsDemoKey(key)
                  /\ \A s \in DOMAIN demoSessions : demoSessions[s].apiKey # key
                  /\ \A n \in 1..uuidCount :
                        key # PK_DEMO \o StripDashes(randomUUID(n))
                  /\ \A s \in DOMAIN demoSessions \ {t} :
                        demoSessions'[s].apiKey = demoSessions[s].apiKey
         ELSE \A s \in DOMAIN demoSessions :
                 demoSessions'[s].apiKey = demoSessions[s].apiKey
      ]_vars

\* a session was given a key by create and another by rotate: it holds the
\* one the rotate returned
C24_Witness ==
    /\ IS_SANDBOX
    /\ last.route = ROTATE
    /\ last.status = 200
    /\ last.resp.old_key # Null
    /\ demoSessions[extractBearer(last.auth)].apiKey = last.resp.key
    /\ IsDemoKey(last.resp.key)

-----------------------------------------------------------------------------
(* Sandbox: what a request changes *)

\* sequence a is the beginning of sequence b
IsPrefix(a, b) == Len(a) <= Len(b) /\ SubSeq(b, 1, Len(a)) = a

\* C25: in sandbox mode a step changes no session but the one its request's
\* bearer addresses: every other session keeps its apiKey, checkouts and
\* webhooks; and the checkouts and webhooks a session had before a step are
\* the beginning of those it has after it.
C25_OnlyOwnSessionChanged ==
    [][IS_SANDBOX =>
         \A t \in DOMAIN demoSessions :
            /\ t \in DOMAIN demoSessions'
            /\ (~Responds \/ extractBearer(last'.auth) # t) =>
                  /\ demoSessions'[t].apiKey = demoSessions[t].apiKey
                  /\ demoSessions'[t].checkouts = demoSessions[t].checkouts
                  /\ demoSessions'[t].webhooks = demoSessions[t].webhooks
            /\ IsPrefix(demoSessions[t].checkouts, demoSessions'[t].checkouts)
            /\ IsPrefix(demoSessions[t].webhooks, demoSessions'[t].webhooks)
      ]_vars

\* one session got its first checkout or webhook while another session holds
\* a key
C25_Witness ==
    /\ IS_SANDBOX
    /\ last.route \in {CHECKOUT, WEBHOOK}
    /\ last.status = 200
    /\ \E t \in DOMAIN demoSessions :
          /\ t # extractBearer(last.auth)
          /\ demoSessions[t].apiKey # Null
    /\ Len(demoSessions[extractBearer(last.auth)].checkouts)
          + Len(demoSessions[extractBearer(last.auth)].webhooks) = 1

-----------------------------------------------------------------------------
(* The session registry *)

\* C26: every session of the registry is stored under its own token, so no
\* two sessions have one token; and a step removes no session: a token of
\* the registry stays in it and goes on resolving to the session of that
\* token, identity and creation time.
C26_RegistryOnlyGrows ==
    /\ [](\A t \in DOMAIN demoSessions :
            /\ demoSessions[t].token = t
            /\ \A u \in DOMAIN demoSessions \ {t} :
                  demoSessions[u].token # demoSessions[t].token)
    /\ [][\A t \in DOMAIN demoSessions :
            /\ t \in DOMAIN demoSessions'
            /\ demoSessions'[t].token = t
            /\ demoSessions'[t].email = demoSessions[t].email
            /\ demoSessions'[t].createdAt = demoSessions[t].createdAt
         ]_vars

\* the registry holds two sessions, the older one changed since its login
C26_Witness ==
    /\ Cardinality(DOMAIN demoSessions) = 2
    /\ \E t, u \in DOMAIN demoSessions :
          /\ demoSessions[t].createdAt < demoSessions[u].createdAt
          /\ demoSessions[t].apiKey # Null
          /\ last.id > demoSessions[u].createdAt

-----------------------------------------------------------------------------
(* Sandbox: the backend is not called *)

\* C27: in sandbox mode no request waits for the backend and no response was
\* made with a backend call.
C27_SandboxCallsNothing ==
    IS_SANDBOX =>
        /\ DOMAIN inflight = {}
        /\ last.calls = <<>>

\* a sandbox session was given a key, a checkout and a webhook, the webhook
\* by the latest request
C27_Witness ==
    /\ IS_SANDBOX
    /\ last.route = WEBHOOK
    /\ last.status = 200
    /\ last.calls = <<>>
    /\ LET session == demoSessions[extractBearer(last.auth)]
       IN  /\ session.apiKey # Null
           /\ Len(session.checkouts) = 1
           /\ Len(session.webhooks) = 1

-----------------------------------------------------------------------------
(* Sandbox: the production credential slot *)

-----------------------------------------------------------------------------
(* Production: the session registry *)

\* C29: in production mode the registry is empty and no token was issued;
\* no response shows of it anything: GET /health has no session count, and
\* the routes that make or read sessions answer 404.
C29_RegistryEmptyInProduction ==
    ~IS_SANDBOX =>
        /\ DOMAIN demoSessions = {}
        /\ issuedTokens = <<>>
        /\ last.route = "GET /health" => "sessions" \notin DOMAIN last.resp
        /\ last.route \in SandboxOnlyRoutes => last.status = 404

\* production: a login with an email was turned away after a key had been
\* issued through the backend
C29_Witness ==
    /\ ~IS_SANDBOX
    /\ last.route = "POST /auth/login"
    /\ "email" \in DOMAIN last.body
    /\ last.status = 404
    /\ prodState.apiKey # Null
    /\ DOMAIN demoSessions = {}

-----------------------------------------------------------------------------
(* Production: the credential of a primary call *)

\* the slot's field a route falls back on
StoredFor(route) == IF route = CREATE THEN prodState.jwt ELSE prodState.apiKey

\* C30: in production mode the primary backend call of a request carries as
\* its bearer the token of the request's Authorization header when the
\* header is a bearer, else what the slot holds for the route, jwt for key
\* issuance and apiKey for rotation, checkout and webhook registration, and
\* carries no Authorization header when there is neither.
C30_PrimaryCallBearer ==
    [][\A id \in DOMAIN inflight' \ DOMAIN inflight :
          LET r      == inflight'[id]
              bearer == extractBearer(r.auth)
          IN  /\ r.pending.path = PrimaryPath(r.route)
              /\ r.pending.Authorization =
                    IF bearer # Null THEN r.auth
                    ELSE IF StoredFor(r.route) # Null
                    THEN BEARER \o StoredFor(r.route)
                    ELSE Null
      ]_vars

\* a rotation without a bearer, sent while the slot holds a jwt and no
\* apiKey, is on its way with no Authorization header
C30_Witness ==
    /\ ~IS_SANDBOX
    /\ prodState.jwt = JWT1
    /\ prodState.apiKey = Null
    /\ \E id \in DOMAIN inflight :
          /\ inflight[id].route = ROTATE
          /\ extractBearer(inflight[id].auth) = Null
          /\ inflight[id].pending.path = "/v1/api-keys/rotate"
          /\ inflight[id].pending.Authorization = Null

-----------------------------------------------------------------------------
(* Sandbox: the records a session keeps *)

\* C31: every webhook record of every session has at least one event.
C31_EventsNonEmpty ==
    \A t \in DOMAIN demoSessions :
        \A i \in 1..Len(demoSessions[t].webhooks) :
            Len(demoSessions[t].webhooks[i].events) > 0

\* a registration without events was given both default events
C31_DefaultEventsUsed ==
    /\ IS_SANDBOX
    /\ last.route = WEBHOOK
    /\ last.status = 200
    /\ "events" \notin DOMAIN last.body
    /\ \E t \in DOMAIN demoSessions :
          /\ Len(demoSessions[t].webhooks) = 1
          /\ demoSessions[t].webhooks[1].events = DefaultEvents

\* a string of three lower-case letters
IsCurrencyCode(s) ==
    /\ Len(s) = 3
    /\ \A i \in 1..3 : IndexIn(s[i], LowerLetters) > 0

\* C32: every checkout record of every session has an amount that is an
\* integer and a currency that is a code of three lower-case letters.
C32_RecordWellFormed ==
    \A t \in DOMAIN demoSessions :
        \A i \in 1..Len(demoSessions[t].checkouts) :
            LET record == demoSessions[t].checkouts[i]
            IN  /\ IsNum(record.amount)
                /\ record.amount[2] \in Int
                /\ IsCurrencyCode(record.currency)

\* a checkout of 2500 EUR was recorded with the currency in lower case
C32_LowerCased ==
    /\ IS_SANDBOX
    /\ last.route = CHECKOUT
    /\ last.status = 200
    /\ "amount" \in DOMAIN last.body
    /\ last.body.currency = EUR_UPPER
    /\ \E t \in DOMAIN demoSessions :
          /\ Len(demoSessions[t].checkouts) = 1
          /\ demoSessions[t].checkouts[1].amount = Num(2500)
          /\ demoSessions[t].checkouts[1].currency = <<"e","u","r">>

-----------------------------------------------------------------------------
(* Production: key requests that overlap *)

\* the last backend call of exchange x and its outcome
LastCall(x) == x.calls[Len(x.calls)]

\* the key the last backend response of exchange x carries for the slot:
\* raw_key from a primary call, key from the legacy one
KeyCarried(x) ==
    IF LastCall(x).call.path = LegacyPath(CREATE)
    THEN Field(LastCall(x).outcome.data, "key")
    ELSE Field(LastCall(x).outcome.data, "raw_key")

\* exchange x is a key request answered by a backend response with a key
WritesSlot(x) ==
    /\ x.route \in {CREATE, ROTATE}
    /\ x.calls # <<>>
    /\ LastCall(x).outcome.ok
    /\ Truthy(KeyCarried(x))

\* C33: in production mode, with key requests overlapping, a request's
\* primary call carries the credential resolved when the request was
\* received, whatever the slot has become while it waited; the slot's apiKey
\* is changed only by a step that processes a backend response with a key,
\* and after such a step it is that response's key, whichever request was
\* received first.
C33_LastResponseWins ==
    /\ [](WritesSlot(last) => prodState.apiKey = KeyCarried(last))
    /\ [][/\ prodState'.apiKey # prodState.apiKey => Responds /\ WritesSlot(last')
          /\ \A id \in DOMAIN inflight' \ DOMAIN inflight :
                inflight'[id].pending.Authorization =
                    IF extractBearer(inflight'[id].auth) # Null
                    THEN inflight'[id].auth
                    ELSE IF StoredFor(inflight'[id].route) # Null
                    THEN BEARER \o StoredFor(inflight'[id].route)
                    ELSE Null
          /\ \A id \in DOMAIN inflight :
                LET sent == IF inflight[id].calls = <<>>
                            THEN inflight[id].pending
                            ELSE inflight[id].calls[1].call
                IN  IF id \in DOMAIN inflight'
                    THEN IF inflight'[id].calls = <<>>
                         THEN inflight'[id].pending = sent
                         ELSE inflight'[id].calls[1].call = sent
                    ELSE last'.id = id /\ last'.calls[1].call = sent
         ]_vars

\* two requests without a bearer overlap: the rotation, received second, was
\* answered first and its key is in the slot; the issuance, received first,
\* went out with no credential and still waits, for the legacy endpoint, and
\* the answer that puts its key in the slot instead can come next
C33_Witness ==
    /\ ~IS_SANDBOX
    /\ last.id = 2
    /\ last.route = ROTATE
    /\ WritesSlot(last)
    /\ prodState.apiKey = K1
    /\ DOMAIN inflight = {1}
    /\ inflight[1].route = CREATE
    /\ inflight[1].pending.path = LegacyPath(CREATE)
    /\ inflight[1].calls[1].call.Authorization = Null
    /\ ENABLED (/\ \E out \in BackendOutcomes : ApiKeysCreateLegacy(1, out)
                /\ prodState'.apiKey = K2)

-----------------------------------------------------------------------------
(* Production: what the credential slot holds *)

\* the keys a backend response can carry, in either field
BackendKeys ==
    {d.raw_key : d \in {x \in OkData : "raw_key" \in DOMAIN x}}
        \cup {d.key : d \in {x \in OkData : "key" \in DOMAIN x}}

\* the tokens a forward request can carry, in its body or its header
ForwardTokens ==
    ({b.jwt : b \in {x \in ForwardBodies : "jwt" \in DOMAIN x}}
        \cup {extractBearer(a) : a \in AuthHeaderValues}) \ {Null, <<>>}

\* a step of a checkout or webhook request: it is received, goes on with
\* another backend call, or is answered
CheckoutOrWebhookStep ==
    \/ Responds /\ last'.route \in {CHECKOUT, WEBHOOK}
    \/ \E id \in DOMAIN inflight' :
          /\ inflight'[id].route \in {CHECKOUT, WEBHOOK}
          /\ id \in DOMAIN inflight => inflight'[id] # inflight[id]

\* C34: in production mode the slot's apiKey is null or a key of a backend
\* response and its jwt is null or a token of a forward request, in every
\* state; the apiKey is changed only by the step that answers an issuance or
\* rotation from a successful backend response, to that response's key, and
\* the jwt only by a forward answered with 200, to the token it carries; no
\* step of a checkout or webhook request changes the slot, whether the
\* request succeeds or fails.
C34_SlotHoldsWhatWasGiven ==
    /\ [](~IS_SANDBOX =>
            /\ prodState.apiKey \in {Null} \cup BackendKeys
            /\ prodState.jwt \in {Null} \cup ForwardTokens)
    /\ [][~IS_SANDBOX =>
            /\ prodState'.apiKey # prodState.apiKey =>
                  /\ Responds
                  /\ WritesSlot(last')
                  /\ prodState'.apiKey = KeyCarried(last')
            /\ prodState'.jwt # prodState.jwt =>
                  /\ Forwards
                  /\ last'.status = 200
                  /\ prodState'.jwt = TokenSent(last')
            /\ CheckoutOrWebhookStep => prodState' = prodState
         ]_vars

\* production: the slot holds the key of an issuance, and the checkout
\* that followed, answered by the backend with a body that has a key
\* field, left the slot as it was
C34_Witness ==
    /\ ~IS_SANDBOX
    /\ last.route = CHECKOUT
    /\ last.status = 200
    /\ Field(last.resp, "key") = K2
    /\ prodState.apiKey = K1
    /\ prodState.jwt = Null

-----------------------------------------------------------------------------
(* GET /health: the session count *)

\* C35: a health response of the sandbox gateway reports as sessions the
\* number of logins answered with 200 since startup; a health response of
\* the production gateway reports the mode production and has no sessions
\* field.
C35_HealthCountsLogins ==
    last.route = "GET /health" =>
        IF IS_SANDBOX
        THEN /\ last.resp.mode = "sandbox"
             /\ last.resp.sessions = Len(issuedTokens)
        ELSE /\ last.resp.mode = "production"
             /\ "sessions" \notin DOMAIN last.resp

\* sandbox: after two logins that succeeded and one that did not, the health
\* response reports two sessions
C35_Witness ==
    /\ IS_SANDBOX
    /\ last.route = "GET /health"
    /\ last.id = 4
    /\ Len(issuedTokens) = 2
    /\ last.resp.sessions = 2

-----------------------------------------------------------------------------
(* Sandbox: the rotation of a session that has no key *)

\* C36: in sandbox mode a rotation asked with the token of a session whose
\* apiKey is null is answered with 200, rotated true and old_key null, and
\* leaves as the session's apiKey the key of the response, a pk_demo_ key
\* that was not issued before.
C36_RotateWithoutKey ==
    [][\A t \in DOMAIN demoSessions :
          ( /\ IS_SANDBOX
            /\ Responds
            /\ last'.route = ROTATE
            /\ extractBearer(last'.auth) = t
            /\ demoSessions[t].apiKey = Null )
          => /\ last'.status = 200
             /\ last'.resp.ok
             /\ last'.resp.rotated
             /\ last'.resp.old_key = Null
             /\ last'.resp.key # Null
             /\ IsDemoKey(last'.resp.key)
             /\ last'.resp.key \notin KeysIssued
             /\ demoSessions'[t].apiKey = last'.resp.key
      ]_vars

\* the second of two sessions, the first holding a key, asked for a rotation
\* before any key was issued to it and holds a key of its own now
C36_Witness ==
    /\ IS_SANDBOX
    /\ last.route = ROTATE
    /\ last.status = 200
    /\ last.resp.old_key = Null
    /\ Cardinality(DOMAIN demoSessions) = 2
    /\ \A t \in DOMAIN demoSessions : demoSessions[t].apiKey # Null
    /\ demoSessions[extractBearer(last.auth)].apiKey = last.resp.key
    /\ \E t \in DOMAIN demoSessions :
          /\ demoSessions[t].createdAt < demoSessions[extractBearer(last.auth)].createdAt
          /\ demoSessions[t].apiKey # last.resp.key

====
